---- MODULE Spec2Model ----
(***************************************************************************)
(* nexus-plugin CLI: the manifest validator (src/lib/validate.js) and the  *)
(* "validate" command of the CLI entry point.                              *)
(*                                                                         *)
(* JSON values are tagged records, JavaScript strings are TLA+ strings     *)
(* (Len, \o and SubSeq act on them character by character).  The eleven    *)
(* bidirectional-override code points have no ASCII spelling; each is      *)
(* written as one reserved ASCII character (see BidiSet)    that occurs in *)
(* no other role in the model, so that lengths stay exact.                 *)
(***************************************************************************)
EXTENDS Integers, Sequences, FiniteSets, TLC

VARIABLES
    command,       \* the command run: "validate", "publish" or "init"
    ci,            \* !isInteractive()
    args,          \* the parsed command-line flags
    target,        \* what the target path is on disk: "missing", "dir", "file"
    file,          \* the manifest file: "missing", "unreadable", "invalid", "json"
    manifest,      \* the JSON value the file content parses to (file = "json")
    dockerfile,    \* TRUE iff a Dockerfile exists next to the manifest file
    jsonMode,      \* opts.json === true
    manifestPath,  \* the resolved manifest path
    pc,            \* position in validate / publish / init / main
    results,       \* sequence of [level, msg]
    errors,
    warnings,
    stdout,        \* what console.log wrote, in order
    stderr,        \* what console.error wrote, in order
    ret,           \* value returned by validate: "none", "true" or "false"
    exitCode,      \* process exit status: 0 or 1, and -1 while the process runs
    prev,          \* what the previous run of the command left, or NoRun
    cmds,          \* the external commands publish has invoked, in order
    remote,        \* the changes publish has made on GitHub
    tmpFile,       \* TRUE iff the pull-request body file exists
    isUpdate,      \* existing.exists: the registry holds an entry for the id
    ghUser,        \* the login gh reports, "" before it is asked
    existing,      \* publish: what fetchExistingEntry returned
    meta,          \* publish: manifestUrl, categories, manifestSha256 and imageDigest
    entry,         \* publish: the registry entry built, NoEntry before
    unlinkFailed,  \* publish: unlinkSync(bodyFile) raised and the error was swallowed
    config,        \* init: the values gathered from the flags or the prompts
    disk,          \* init: the paths that exist, relative to the working directory
    before         \* init: the paths that existed when the command started

vars == <<command, ci, args, target, file, manifest, dockerfile, jsonMode, manifestPath, pc,
          results, errors, warnings, stdout, stderr, ret, exitCode,
          prev, cmds, remote, tmpFile, isUpdate, ghUser, existing, meta, entry, unlinkFailed,
          config, disk, before>>

\* what the process is started with
Cli == <<command, ci, args>>

\* the state of publish and of init, and the record of an earlier run
PublishVars == <<cmds, remote, tmpFile, isUpdate, ghUser, existing, meta, entry, unlinkFailed>>
InitVars    == <<config, disk, before>>
Beyond      == <<Cli, prev, PublishVars, InitVars>>

-----------------------------------------------------------------------------
(* JSON values and the JavaScript operations validate.js applies to them.  *)

undefined == [t |-> "undefined"]
null      == [t |-> "null"]
Bool(b)   == [t |-> "boolean", b |-> b]
Num(n)    == [t |-> "number", n |-> n]
Str(s)    == [t |-> "string", s |-> s]
Arr(a)    == [t |-> "array", a |-> a]
Obj(o)    == [t |-> "object", o |-> o]       \* o: sequence of [k, v] in key order

\* typeof v
TypeOf(v) ==
    CASE v.t = "undefined" -> "undefined"
      [] v.t = "boolean"   -> "boolean"
      [] v.t = "number"    -> "number"
      [] v.t = "string"    -> "string"
      [] OTHER             -> "object"       \* null, arrays and objects

\* ToBoolean(v): the value of v in a condition
Truthy(v) ==
    CASE v.t = "undefined" -> FALSE
      [] v.t = "null"      -> FALSE
      [] v.t = "boolean"   -> v.b
      [] v.t = "number"    -> v.n # 0
      [] v.t = "string"    -> Len(v.s) > 0
      [] OTHER             -> TRUE

\* v.key raises a TypeError exactly when v is null or undefined
Throws(v) == v.t \in {"undefined", "null"}

\* v.key for a key that is no built-in property (v is neither null nor undefined)
Prop(v, key) ==
    IF v.t = "object" /\ \E i \in 1..Len(v.o) : v.o[i].k = key
    THEN LET i == CHOOSE j \in 1..Len(v.o) : v.o[j].k = key IN v.o[i].v
    ELSE undefined

\* v.length
Length(v) ==
    CASE v.t = "string" -> Num(Len(v.s))
      [] v.t = "array"  -> Num(Len(v.a))
      [] OTHER          -> Prop(v, "length")

\* a <= n and a > n for a JSON value a and a number n: false unless a is a number
Leq(a, n) == a.t = "number" /\ a.n <= n
Gt(a, n)  == a.t = "number" /\ a.n > n

IsArray(v) == v.t = "array"

Digit(d) == SubSeq("0123456789", d + 1, d + 1)

RECURSIVE Decimal(_)
Decimal(n) == IF n < 10 THEN Digit(n) ELSE Decimal(n \div 10) \o Digit(n % 10)

RECURSIVE ToStr(_)
RECURSIVE Join(_, _)
\* Array.prototype.join(","): null and undefined elements give the empty string
Join(a, i) ==
    IF i > Len(a) THEN ""
    ELSE (IF a[i].t \in {"undefined", "null"} THEN "" ELSE ToStr(a[i]))
         \o (IF i < Len(a) THEN "," ELSE "") \o Join(a, i + 1)
\* String(v), as applied by template literals and by RegExp.prototype.test
ToStr(v) ==
    CASE v.t = "undefined" -> "undefined"
      [] v.t = "null"      -> "null"
      [] v.t = "boolean"   -> IF v.b THEN "true" ELSE "false"
      [] v.t = "number"    -> IF v.n < 0 THEN "-" \o Decimal(-v.n) ELSE Decimal(v.n)
      [] v.t = "string"    -> v.s
      [] v.t = "array"     -> Join(v.a, 1)
      [] OTHER             -> "[object Object]"

CharAt(s, i) == SubSeq(s, i, i)

\* s.startsWith(prefix) for strings
StartsWith(s, prefix) ==
    Len(s) >= Len(prefix) /\ SubSeq(s, 1, Len(prefix)) = prefix

\* every character of s is in class, and lo <= s.length <= hi:  /^[class]{lo,hi}$/
AllIn(s, class, lo, hi) ==
    /\ Len(s) >= lo
    /\ Len(s) <= hi
    /\ \A i \in 1..Len(s) : CharAt(s, i) \in class

RECURSIVE Rep(_, _)
\* c repeated n times
Rep(c, n) ==
    IF n = 0 THEN ""
    ELSE IF n % 2 = 0 THEN LET half == Rep(c, n \div 2) IN half \o half
    ELSE c \o Rep(c, n - 1)

-----------------------------------------------------------------------------
(* Constants of validate.js                                                *)

VALID_PERMISSIONS ==
    <<"system:info", "filesystem:read", "filesystem:write", "process:list",
      "docker:read", "docker:manage", "network:local", "network:internet">>

\* U+200E U+200F U+202A U+202B U+202C U+202D U+202E U+2066 U+2067 U+2068 U+2069,
\* in this order, each written as one reserved ASCII character
BidiSet == {"{", "}", "|", "~", "^", "!", "@", "#", "$", "%", "&"}

Lower  == {"a","b","c","d","e","f","g","h","i","j","k","l","m",
           "n","o","p","q","r","s","t","u","v","w","x","y","z"}
Digits == {"0","1","2","3","4","5","6","7","8","9"}
Hex    == Digits \cup {"a","b","c","d","e","f"}

\* BIDI_CHARS.test(v): some character of String(v) is a bidi override
BIDI_CHARS(v) == \E i \in 1..Len(ToStr(v)) : CharAt(ToStr(v), i) \in BidiSet

\* TOOL_NAME_RE.test(v):  /^[a-z0-9_]{1,100}$/
TOOL_NAME_RE(v) == AllIn(ToStr(v), Lower \cup Digits \cup {"_"}, 1, 100)

\* EXT_ID_RE.test(v):  /^[a-z0-9_-]{1,100}$/
EXT_ID_RE(v) == AllIn(ToStr(v), Lower \cup Digits \cup {"_", "-"}, 1, 100)

\* DIGEST_RE.test(v):  /^sha256:[0-9a-f]{64}$/
DIGEST_RE(v) ==
    LET s == ToStr(v) IN
    /\ StartsWith(s, "sha256:")
    /\ AllIn(SubSeq(s, 8, Len(s)), Hex, 64, 64)

VALID_SETTING_TYPES == <<"string", "number", "boolean", "select">>

\* list.includes(v) for a list of strings: strict equality, so only a string matches
Includes(list, v) == v.t = "string" /\ \E i \in 1..Len(list) : list[i] = v.s

-----------------------------------------------------------------------------
(* The accumulators of validate and its helpers pass, fail, warn, check.   *)
(* acc = [results, errors, warnings, threw]; threw records that a          *)
(* TypeError was raised, after which nothing more is accumulated.          *)

Msg(tpl, params) == [tpl |-> tpl, args |-> params]

Acc0 == [results |-> <<>>, errors |-> 0, warnings |-> 0, threw |-> FALSE]

pass(acc, msg) ==
    IF acc.threw THEN acc
    ELSE [acc EXCEPT !.results = Append(@, [level |-> "pass", msg |-> msg])]

\* fail that records the entry and forgets to count it
fail_Uncounted(acc, msg) ==
    IF acc.threw THEN acc
    ELSE [acc EXCEPT !.results = Append(@, [level |-> "fail", msg |-> msg])]

fail(acc, msg) ==
    IF acc.threw THEN acc
    ELSE [acc EXCEPT !.results = Append(@, [level |-> "fail", msg |-> msg]),
                     !.errors = @ + 1]

warn(acc, msg) ==
    IF acc.threw THEN acc
    ELSE [acc EXCEPT !.results = Append(@, [level |-> "warn", msg |-> msg]),
                     !.warnings = @ + 1]

check(acc, condition, passMsg, failMsg) ==
    IF condition THEN pass(acc, passMsg) ELSE fail(acc, failMsg)

throw(acc) == [acc EXCEPT !.threw = TRUE]

-----------------------------------------------------------------------------
(* Required fields and length limits                                       *)

\* manifest.f && typeof manifest.f === "string" && manifest.f.length > 0
Present(v) == Truthy(v) /\ TypeOf(v) = "string" /\ Gt(Length(v), 0)

\* manifest.author && typeof manifest.author === "string"
AuthorPresent(v) == Truthy(v) /\ TypeOf(v) = "string"

\* manifest.ui && typeof manifest.ui.port === "number" && manifest.ui.port > 0
UiPortOk(ui) ==
    Truthy(ui) /\ TypeOf(Prop(ui, "port")) = "number" /\ Gt(Prop(ui, "port"), 0)

\* manifest.ui?.port
UiPortText(ui) == IF Throws(ui) THEN "undefined" ELSE ToStr(Prop(ui, "port"))

RequiredFields(acc, m) ==
    IF Throws(m) THEN throw(acc)
    ELSE
    LET a1 == check(acc, Present(Prop(m, "id")),
                    Msg("id present", <<>>), Msg("id is required", <<>>))
        a2 == check(a1, Present(Prop(m, "name")),
                    Msg("name present", <<>>), Msg("name is required", <<>>))
        a3 == check(a2, Present(Prop(m, "version")),
                    Msg("version present", <<>>), Msg("version is required", <<>>))
        a4 == check(a3, Present(Prop(m, "description")),
                    Msg("description present", <<>>),
                    Msg("description is required", <<>>))
        a5 == check(a4, AuthorPresent(Prop(m, "author")),
                    Msg("author present", <<>>), Msg("author is required", <<>>))
        a6 == check(a5, Present(Prop(m, "image")),
                    Msg("image present", <<>>), Msg("image is required", <<>>))
    IN  check(a6, UiPortOk(Prop(m, "ui")),
              Msg("ui.port = ", <<UiPortText(Prop(m, "ui"))>>),
              Msg("ui.port must be a non-zero number", <<>>))

\* the length limit with < in place of <=
LengthLimit_Strict(acc, m, field, limit) ==
    LET v == Prop(m, field) IN
    IF Truthy(v)
    THEN check(acc, Leq(Length(v), limit - 1),
               Msg(field \o " length ok", <<>>),
               Msg(field \o " too long", <<ToStr(Length(v)), Decimal(limit)>>))
    ELSE acc

\* if (manifest.f) check(manifest.f.length <= limit, "f length ok", `f too long (n/limit)`)
LengthLimit(acc, m, field, limit) ==
    LET v == Prop(m, field) IN
    IF Truthy(v)
    THEN check(acc, Leq(Length(v), limit),
               Msg(field \o " length ok", <<>>),
               Msg(field \o " too long", <<ToStr(Length(v)), Decimal(limit)>>))
    ELSE acc

LengthLimits(acc, m) ==
    LET a1 == LengthLimit(acc, m, "id", 100)
        a2 == LengthLimit(a1, m, "name", 100)
        a3 == LengthLimit(a2, m, "version", 50)
        a4 == LengthLimit(a3, m, "description", 2000)
        a5 == LengthLimit(a4, m, "author", 100)
    IN  LengthLimit(a5, m, "image", 200)

-----------------------------------------------------------------------------
(* Bidi characters, icon URL, image digest                                 *)

\* the bidi condition written as !value || BIDI_CHARS.test(value)
BidiHit_AbsentHits(m, field) == ~ Truthy(Prop(m, field)) \/ BIDI_CHARS(Prop(m, field))

\* value && BIDI_CHARS.test(value)
BidiHit(m, field) == Truthy(Prop(m, field)) /\ BIDI_CHARS(Prop(m, field))

BidiField(acc, m, field) ==
    IF BidiHit(m, field)
    THEN fail(acc, Msg("contains bidirectional override characters", <<field>>))
    ELSE acc

BidiScan(acc, m) ==
    LET a3 == BidiField(BidiField(BidiField(acc, m, "name"), m, "description"),
                        m, "author")
        bidiClean == ~ \E f \in {"name", "description", "author"} : BidiHit(m, f)
    IN  IF bidiClean THEN pass(a3, Msg("no bidi override characters", <<>>)) ELSE a3

\* manifest.icon != null
NotNullish(v) == v.t \notin {"undefined", "null"}

\* the icon condition that accepts https:// only
IconOk_HttpsOnly(icon) ==
    /\ TypeOf(icon) = "string"
    /\ StartsWith(icon.s, "https://")

IconOk(icon) ==
    /\ TypeOf(icon) = "string"
    /\ (StartsWith(icon.s, "http://") \/ StartsWith(icon.s, "https://"))

IconUrl(acc, m) ==
    IF NotNullish(Prop(m, "icon"))
    THEN check(acc, IconOk(Prop(m, "icon")),
               Msg("icon URL valid", <<>>),
               Msg("icon must be an http or https URL", <<>>))
    ELSE acc

ImageDigest(acc, m) ==
    IF NotNullish(Prop(m, "image_digest"))
    THEN check(acc, DIGEST_RE(Prop(m, "image_digest")),
               Msg("image_digest format valid", <<>>),
               Msg("image_digest must be sha256: followed by 64 hex characters", <<>>))
    ELSE acc

-----------------------------------------------------------------------------
(* Permissions                                                             *)

\* !VALID_PERMISSIONS.includes(perm) && !perm.startsWith("ext:"):
\* "valid", "invalid", or "throw" when perm.startsWith is not a function
PermVerdict(perm) ==
    IF Includes(VALID_PERMISSIONS, perm) THEN "valid"
    ELSE IF perm.t # "string" THEN "throw"
    ELSE IF StartsWith(perm.s, "ext:") THEN "valid"
    ELSE "invalid"

\* the permissions loop with a break at the first invalid entry
PermLoop_EarlyExit(st, perms, i) ==
    LET bad == {j \in 1..Len(perms) : PermVerdict(perms[j]) # "valid"} IN
    IF bad = {} THEN st
    ELSE LET j == CHOOSE k \in bad : \A l \in bad : k <= l IN
         IF PermVerdict(perms[j]) = "throw" THEN [st EXCEPT !.acc = throw(@)]
         ELSE [acc |-> fail(st.acc, Msg("invalid permission: ", <<ToStr(perms[j])>>)),
               ok  |-> FALSE]

RECURSIVE PermLoop(_, _, _)
\* for (const perm of manifest.permissions) ...; st = [acc, ok]
PermLoop(st, perms, i) ==
    IF i > Len(perms) \/ st.acc.threw THEN st
    ELSE LET verdict == PermVerdict(perms[i]) IN
         PermLoop(
            CASE verdict = "throw"   -> [st EXCEPT !.acc = throw(@)]
              [] verdict = "invalid" ->
                    [acc |-> fail(st.acc, Msg("invalid permission: ", <<ToStr(perms[i])>>)),
                     ok  |-> FALSE]
              [] OTHER -> st,
            perms, i + 1)

Permissions(acc, m) ==
    LET perms == Prop(m, "permissions") IN
    IF IsArray(perms)
    THEN LET st == PermLoop([acc |-> acc, ok |-> TRUE], perms.a, 1) IN
         IF st.ok
         THEN pass(st.acc, Msg("permissions valid", <<Decimal(Len(perms.a))>>))
         ELSE st.acc
    ELSE acc

-----------------------------------------------------------------------------
(* MCP tools                                                               *)

RECURSIVE ToolPermLoop(_, _, _, _)
\* for (const perm of tool.permissions) ...; st = [acc, ok]
ToolPermLoop(st, tool, perms, i) ==
    IF i > Len(perms) \/ st.acc.threw THEN st
    ELSE LET verdict == PermVerdict(perms[i]) IN
         ToolPermLoop(
            CASE verdict = "throw"   -> [st EXCEPT !.acc = throw(@)]
              [] verdict = "invalid" ->
                    [acc |-> fail(st.acc, Msg("MCP tool has invalid permission: ",
                                              <<ToStr(Prop(tool, "name")), ToStr(perms[i])>>)),
                     ok  |-> FALSE]
              [] OTHER -> st,
            tool, perms, i + 1)

\* the description chain without its last branch, the bidi test
ToolDescriptionFault_NoBidi(d) ==
    IF ~ Truthy(d) \/ Length(d) = Num(0) THEN "MCP tool must have a description"
    ELSE IF Gt(Length(d), 2000) THEN "MCP tool description exceeds 2000 characters"
    ELSE ""

\* the description chain: "", or the template of the fail it produces
ToolDescriptionFault(d) ==
    IF ~ Truthy(d) \/ Length(d) = Num(0) THEN "MCP tool must have a description"
    ELSE IF Gt(Length(d), 2000) THEN "MCP tool description exceeds 2000 characters"
    ELSE IF BIDI_CHARS(d) THEN "MCP tool description contains bidi overrides"
    ELSE ""

\* !tool.input_schema || typeof tool.input_schema !== "object"
\*   || tool.input_schema.type !== "object"
ToolSchemaFault(sch) ==
    ~ Truthy(sch) \/ TypeOf(sch) # "object" \/ Prop(sch, "type") # Str("object")

\* the loop body without the continue after an invalid name
ToolBody_NoContinue(st, tool) ==
    IF Throws(tool) THEN [st EXCEPT !.acc = throw(@)]
    ELSE
    LET name == Prop(tool, "name")
        nm   == ToStr(name)
        s0 == IF ~ TOOL_NAME_RE(name)
              THEN [st EXCEPT !.acc = fail(@, Msg("MCP tool name invalid", <<nm>>)),
                              !.ok = FALSE]
              ELSE st
    IN
    IF name \in s0.names
    THEN [s0 EXCEPT !.acc = fail(@, Msg("duplicate MCP tool name: ", <<nm>>)),
                    !.ok = FALSE]
    ELSE
    LET dFault == ToolDescriptionFault(Prop(tool, "description"))
        s1 == IF dFault # ""
              THEN [s0 EXCEPT !.acc = fail(@, Msg(dFault, <<nm>>)), !.ok = FALSE,
                              !.names = @ \cup {name}]
              ELSE [s0 EXCEPT !.names = @ \cup {name}]
        s2 == IF ToolSchemaFault(Prop(tool, "input_schema"))
              THEN [s1 EXCEPT !.acc = fail(@, Msg("MCP tool input_schema must have type object at root",
                                                  <<nm>>)),
                              !.ok = FALSE]
              ELSE s1
        tperms == Prop(tool, "permissions")
    IN  IF IsArray(tperms)
        THEN LET r == ToolPermLoop([acc |-> s2.acc, ok |-> s2.ok], tool, tperms.a, 1)
             IN  [s2 EXCEPT !.acc = r.acc, !.ok = r.ok]
        ELSE s2

\* the loop body that never records a name in toolNames
ToolBody_NoAdd(st, tool) ==
    IF Throws(tool) THEN [st EXCEPT !.acc = throw(@)]
    ELSE
    LET name == Prop(tool, "name")
        nm   == ToStr(name)
    IN
    IF ~ TOOL_NAME_RE(name)
    THEN [st EXCEPT !.acc = fail(@, Msg("MCP tool name invalid", <<nm>>)),
                    !.ok = FALSE]
    ELSE
    LET dFault == ToolDescriptionFault(Prop(tool, "description"))
        s1 == IF dFault # ""
              THEN [st EXCEPT !.acc = fail(@, Msg(dFault, <<nm>>)), !.ok = FALSE]
              ELSE st
        s2 == IF ToolSchemaFault(Prop(tool, "input_schema"))
              THEN [s1 EXCEPT !.acc = fail(@, Msg("MCP tool input_schema must have type object at root",
                                                  <<nm>>)),
                              !.ok = FALSE]
              ELSE s1
        tperms == Prop(tool, "permissions")
    IN  IF IsArray(tperms)
        THEN LET r == ToolPermLoop([acc |-> s2.acc, ok |-> s2.ok], tool, tperms.a, 1)
             IN  [s2 EXCEPT !.acc = r.acc, !.ok = r.ok]
        ELSE s2

\* one iteration of the loop over manifest.mcp.tools; st = [acc, ok, names]
ToolBody(st, tool) ==
    IF Throws(tool) THEN [st EXCEPT !.acc = throw(@)]
    ELSE
    LET name == Prop(tool, "name")
        nm   == ToStr(name)
    IN
    IF ~ TOOL_NAME_RE(name)
    THEN [st EXCEPT !.acc = fail(@, Msg("MCP tool name invalid", <<nm>>)),
                    !.ok = FALSE]
    ELSE IF name \in st.names
    THEN [st EXCEPT !.acc = fail(@, Msg("duplicate MCP tool name: ", <<nm>>)),
                    !.ok = FALSE]
    ELSE
    LET dFault == ToolDescriptionFault(Prop(tool, "description"))
        s1 == IF dFault # ""
              THEN [st EXCEPT !.acc = fail(@, Msg(dFault, <<nm>>)), !.ok = FALSE,
                              !.names = @ \cup {name}]
              ELSE [st EXCEPT !.names = @ \cup {name}]
        s2 == IF ToolSchemaFault(Prop(tool, "input_schema"))
              THEN [s1 EXCEPT !.acc = fail(@, Msg("MCP tool input_schema must have type object at root",
                                                  <<nm>>)),
                              !.ok = FALSE]
              ELSE s1
        tperms == Prop(tool, "permissions")
    IN  IF IsArray(tperms)
        THEN LET r == ToolPermLoop([acc |-> s2.acc, ok |-> s2.ok], tool, tperms.a, 1)
             IN  [s2 EXCEPT !.acc = r.acc, !.ok = r.ok]
        ELSE s2

RECURSIVE ToolLoop(_, _, _)
ToolLoop(st, tools, i) ==
    IF i > Len(tools) \/ st.acc.threw THEN st
    ELSE ToolLoop(ToolBody(st, tools[i]), tools, i + 1)

\* manifest.mcp && Array.isArray(manifest.mcp.tools)
HasTools(m) == Truthy(Prop(m, "mcp")) /\ IsArray(Prop(Prop(m, "mcp"), "tools"))

McpTools(acc, m) ==
    IF HasTools(m)
    THEN LET tools == Prop(Prop(m, "mcp"), "tools").a
             st == ToolLoop([acc |-> acc, ok |-> TRUE, names |-> {}], tools, 1)
         IN  IF st.ok
             THEN pass(st.acc, Msg("MCP tools valid", <<Decimal(Len(tools))>>))
             ELSE st.acc
    ELSE acc

-----------------------------------------------------------------------------
(* Extensions                                                              *)

\* Object.entries(v) for an object or an array: [k, v] pairs, keys as strings
Entries(v) ==
    IF v.t = "object" THEN v.o
    ELSE IF v.t = "array" THEN [i \in 1..Len(v.a) |-> [k |-> Decimal(i - 1), v |-> v.a[i]]]
    ELSE <<>>

RECURSIVE OpLoop(_, _, _, _)
\* for (const op of operations) ...; st = [acc, ok]
OpLoop(st, extId, ops, i) ==
    IF i > Len(ops) THEN st
    ELSE OpLoop(
            IF ~ EXT_ID_RE(ops[i])
            THEN [acc |-> fail(st.acc, Msg("extension operation must match",
                                           <<extId, ToStr(ops[i])>>)),
                  ok  |-> FALSE]
            ELSE st,
            extId, ops, i + 1)

\* one iteration of the loop over the entries; st = [acc, ok]
ExtBody(st, extId, operations) ==
    IF ~ EXT_ID_RE(Str(extId))
    THEN [acc |-> fail(st.acc, Msg("extension ID must match", <<extId>>)), ok |-> FALSE]
    ELSE IF ~ IsArray(operations) \/ Length(operations) = Num(0)
    THEN [acc |-> fail(st.acc, Msg("extension must declare at least one operation",
                                   <<extId>>)),
          ok  |-> FALSE]
    ELSE OpLoop(st, extId, operations.a, 1)

RECURSIVE ExtLoop(_, _, _)
ExtLoop(st, entries, i) ==
    IF i > Len(entries) THEN st
    ELSE ExtLoop(ExtBody(st, entries[i].k, entries[i].v), entries, i + 1)

\* manifest.extensions && typeof manifest.extensions === "object"
HasExtensions(m) == Truthy(Prop(m, "extensions")) /\ TypeOf(Prop(m, "extensions")) = "object"

Extensions(acc, m) ==
    IF HasExtensions(m)
    THEN LET entries == Entries(Prop(m, "extensions"))
             st == ExtLoop([acc |-> acc, ok |-> TRUE], entries, 1)
         IN  IF st.ok /\ Len(entries) > 0
             THEN pass(st.acc, Msg("extensions valid", <<Decimal(Len(entries))>>))
             ELSE st.acc
    ELSE acc

-----------------------------------------------------------------------------
(* Settings                                                                *)

\* the loop body that accepts an empty options array for type select
SettingBody_EmptyOptionsOk(st, setting) ==
    IF Throws(setting) THEN [st EXCEPT !.acc = throw(@)]
    ELSE
    LET key  == Prop(setting, "key")
        type == Prop(setting, "type")
        opts == Prop(setting, "options")
    IN
    IF ~ Truthy(key) \/ TypeOf(key) # "string"
    THEN [acc |-> fail(st.acc, Msg("setting missing key", <<>>)), ok |-> FALSE]
    ELSE
    LET s1 == IF ~ Includes(VALID_SETTING_TYPES, type)
              THEN [acc |-> fail(st.acc, Msg("setting has invalid type",
                                             <<key.s, ToStr(type),
                                               "string/number/boolean/select">>)),
                    ok  |-> FALSE]
              ELSE st
    IN  IF type = Str("select") /\ ~ IsArray(opts)
        THEN [acc |-> fail(s1.acc, Msg("setting type select requires a non-empty options array",
                                       <<key.s>>)),
              ok  |-> FALSE]
        ELSE s1

\* one iteration of the loop over manifest.settings; st = [acc, ok]
SettingBody(st, setting) ==
    IF Throws(setting) THEN [st EXCEPT !.acc = throw(@)]
    ELSE
    LET key  == Prop(setting, "key")
        type == Prop(setting, "type")
        opts == Prop(setting, "options")
    IN
    IF ~ Truthy(key) \/ TypeOf(key) # "string"
    THEN [acc |-> fail(st.acc, Msg("setting missing key", <<>>)), ok |-> FALSE]
    ELSE
    LET s1 == IF ~ Includes(VALID_SETTING_TYPES, type)
              THEN [acc |-> fail(st.acc, Msg("setting has invalid type",
                                             <<key.s, ToStr(type),
                                               "string/number/boolean/select">>)),
                    ok  |-> FALSE]
              ELSE st
    IN  IF type = Str("select") /\ (~ IsArray(opts) \/ Length(opts) = Num(0))
        THEN [acc |-> fail(s1.acc, Msg("setting type select requires a non-empty options array",
                                       <<key.s>>)),
              ok  |-> FALSE]
        ELSE s1

RECURSIVE SettingLoop(_, _, _)
SettingLoop(st, settings, i) ==
    IF i > Len(settings) \/ st.acc.threw THEN st
    ELSE SettingLoop(SettingBody(st, settings[i]), settings, i + 1)

\* the settings group without the length > 0 condition on the aggregated pass
Settings_PassOnEmpty(acc, m) ==
    LET settings == Prop(m, "settings") IN
    IF IsArray(settings)
    THEN LET st == SettingLoop([acc |-> acc, ok |-> TRUE], settings.a, 1) IN
         IF st.ok
         THEN pass(st.acc, Msg("settings valid", <<Decimal(Len(settings.a))>>))
         ELSE st.acc
    ELSE acc

Settings(acc, m) ==
    LET settings == Prop(m, "settings") IN
    IF IsArray(settings)
    THEN LET st == SettingLoop([acc |-> acc, ok |-> TRUE], settings.a, 1) IN
         IF st.ok /\ Len(settings.a) > 0
         THEN pass(st.acc, Msg("settings valid", <<Decimal(Len(settings.a))>>))
         ELSE st.acc
    ELSE acc

-----------------------------------------------------------------------------
(* Dockerfile warning                                                      *)

\* the Dockerfile looked for under the resolved target instead of next to the manifest
\* file: under a target that is a file there is none
SiblingDockerfile_UnderTarget(tg, df) == tg # "file" /\ df

\* fs.existsSync(path.join(path.dirname(manifestPath), "Dockerfile")): df tells whether a
\* Dockerfile exists in the directory of the manifest file, whatever the target tg is
SiblingDockerfile(tg, df) == df

\* the Dockerfile check reporting a missing Dockerfile with fail
DockerfileCheck_Fails(acc, exists) ==
    IF ~ exists
    THEN fail(acc, Msg("no Dockerfile found next to plugin.json", <<>>))
    ELSE pass(acc, Msg("Dockerfile found", <<>>))

DockerfileCheck(acc, exists) ==
    IF ~ exists
    THEN warn(acc, Msg("no Dockerfile found next to plugin.json", <<>>))
    ELSE pass(acc, Msg("Dockerfile found", <<>>))

-----------------------------------------------------------------------------
(* output(manifestPath, results, errors, warnings, jsonMode)               *)

\* results.map((r) => ({ level: r.level, message: r.msg }))
MapResults(rs) == [i \in 1..Len(rs) |-> [level |-> rs[i].level, message |-> rs[i].msg]]

\* the lines console.log writes
OutputLines(path, rs, errs, warns, json) ==
    IF json
    THEN << [kind |-> "json", file |-> path, ok |-> (errs = 0), errors |-> errs,
             warnings |-> warns, results |-> MapResults(rs)] >>
    ELSE << [kind |-> "header", file |-> path] >>
         \o [i \in 1..Len(rs) |->
                [kind |-> "line",
                 marker |-> IF rs[i].level = "pass" THEN "PASS"
                            ELSE IF rs[i].level = "fail" THEN "FAIL" ELSE "WARN_SYM",
                 msg |-> rs[i].msg]]
         \o << [kind |-> "blank"] >>
         \o << IF errs = 0
               THEN [kind |-> "passed", warnings |-> warns]
               ELSE [kind |-> "errors", errors |-> errs, warnings |-> warns] >>

\* the value output returns: errors === 0
OutputValue(errs) == IF errs = 0 THEN "true" ELSE "false"

-----------------------------------------------------------------------------
(* The inputs: manifests the file content may parse to.                    *)

MaxPerms    == 2     \* longest permissions array
MaxTools    == 3     \* longest mcp.tools array
MaxExts     == 2     \* most keys of an extensions mapping
MaxSettings == 2     \* longest settings array

\* sequences over S of length 0..n
RECURSIVE SeqsUpTo(_, _)
SeqsUpTo(S, n) ==
    IF n = 0 THEN {<<>>}
    ELSE LET shorter == SeqsUpTo(S, n - 1) IN
         shorter \cup {Append(q, x) : q \in {r \in shorter : Len(r) = n - 1}, x \in S}

KV(k, v) == [k |-> k, v |-> v]

\* obj with key set to val; val = undefined leaves the key out
RECURSIVE Drop(_, _)
Drop(o, key) ==
    IF o = <<>> THEN <<>>
    ELSE IF Head(o).k = key THEN Drop(Tail(o), key)
    ELSE <<Head(o)>> \o Drop(Tail(o), key)

With(obj, key, val) ==
    IF val = undefined THEN Obj(Drop(obj.o, key))
    ELSE IF \E i \in 1..Len(obj.o) : obj.o[i].k = key
    THEN Obj([i \in 1..Len(obj.o) |-> IF obj.o[i].k = key THEN KV(key, val) ELSE obj.o[i]])
    ELSE Obj(Append(obj.o, KV(key, val)))

Base ==
    Obj(<< KV("id", Str("com.a.b")), KV("name", Str("X")), KV("version", Str("1.0.0")),
           KV("description", Str("d")), KV("author", Str("me")),
           KV("image", Str("img:tag")), KV("ui", Obj(<<KV("port", Num(80))>>)) >>)

StringFields == {"id", "name", "version", "description", "author", "image"}
RequiredKeys == StringFields \cup {"ui"}

Limit(field) ==
    CASE field = "version"     -> 50
      [] field = "description" -> 2000
      [] field = "image"       -> 200
      [] OTHER                 -> 100

StringFieldValues(field) ==
    { undefined, null, Num(0), Num(5), Bool(TRUE), Arr(<<>>), Arr(<<Str("a")>>),
      Str(""), Str("a"), Str("a~"),
      Str(Rep("a", Limit(field))), Str(Rep("a", Limit(field) + 1)) }

UiValues ==
    { undefined, null, Str("80"), Num(80), Obj(<<>>),
      Obj(<<KV("port", Num(80))>>), Obj(<<KV("port", Num(1))>>),
      Obj(<<KV("port", Num(0))>>), Obj(<<KV("port", Num(-1))>>),
      Obj(<<KV("port", Str("80"))>>), Obj(<<KV("port", null)>>) }

FieldValues(field) == IF field = "ui" THEN UiValues ELSE StringFieldValues(field)

\* one required field varied
OneVaried ==
    { With(Base, p[1], p[2]) :
        p \in UNION { {<<f, v>> : v \in FieldValues(f)} : f \in RequiredKeys } }

\* one required field varied, and at most one required field left out
RequiredFamily ==
    OneVaried \cup { With(m, g, undefined) : m \in OneVaried, g \in {"name", "image"} }

PermTokens ==
    { Str("system:info"), Str("network:internet"), Str("ext:x"), Str("ext"),
      Str("bogus"), Str(""), Num(5), null }

PermissionsFamily ==
    { With(Base, "permissions", v) :
        v \in {Arr(a) : a \in SeqsUpTo(PermTokens, MaxPerms)}
              \cup {Str("system:info"), Obj(<<>>), null} }

SchemaOk == Obj(<<KV("type", Str("object"))>>)

Tool(name, description, schema, perms) ==
    With(With(With(With(Obj(<<>>), "name", name), "description", description),
              "input_schema", schema), "permissions", perms)

ToolPool ==
    { Tool(Str("a_1"), Str("d"), SchemaOk, undefined),
      Tool(Str("b"), Str("d"), SchemaOk, Arr(<<Str("system:info"), Str("ext:x")>>)),
      Tool(Str("Bad Name"), undefined, undefined, Arr(<<Str("bogus")>>)),
      Tool(Str("a_1"), Str(Rep("a", 2000) \o "~"), Obj(<<KV("type", Str("string"))>>),
           Arr(<<Str("bogus"), Str("nope")>>)),
      Tool(Str("b"), Str("d~"), SchemaOk, Arr(<<>>)),
      Tool(undefined, Str("d"), SchemaOk, undefined) }

\* tool entries that are no objects, or whose permissions are no strings
OddTools ==
    { <<null>>, <<Num(5)>>, <<Str("a_1")>>,
      <<Tool(Str("a_1"), Str("d"), SchemaOk, undefined), null>>,
      <<Tool(Str("c"), Str("d"), SchemaOk, Arr(<<Num(5)>>))>>,
      <<Tool(Str("c"), Num(5), Arr(<<>>), Arr(<<Str("bogus")>>))>>,
      <<Tool(Str("c"), Str("d"), null, Arr(<<Str("ext:x"), null>>))>>,
      <<Tool(Str("c"), Arr(<<>>), SchemaOk, Str("bogus"))>>,
      <<Tool(Str("c"), Str("d"), Str("object"), undefined)>>,
      <<Tool(Str("c"), Arr(<<Str("d~")>>), SchemaOk, undefined)>> }

ToolsFamily ==
    { With(Base, "mcp", v) :
        v \in {Obj(<<KV("tools", Arr(a))>>) : a \in SeqsUpTo(ToolPool, MaxTools) \cup OddTools}
              \cup {Obj(<<>>), Obj(<<KV("tools", Str("x"))>>), Str("x"), null} }

ExtKeys   == {"ext-a", "b_2", "Bad.Id"}
ExtValues ==
    { Arr(<<>>), Arr(<<Str("op")>>), Arr(<<Str("op"), Str("Bad Op"), Num(5), Obj(<<>>)>>),
      Str("op") }

\* mappings with distinct keys, in any key order
ExtMappings ==
    { Obj(o) : o \in { q \in SeqsUpTo({KV(k, v) : k \in ExtKeys, v \in ExtValues}, MaxExts) :
                        \A i, j \in 1..Len(q) : i # j => q[i].k # q[j].k } }

ExtensionsFamily ==
    { With(Base, "extensions", v) :
        v \in ExtMappings
              \cup {Arr(<<>>), Arr(<<Str("a")>>), Arr(<<Arr(<<Str("op")>>)>>), Str("x"),
                    Num(1), null} }

Setting(key, type, options) ==
    With(With(With(Obj(<<>>), "key", key), "type", type), "options", options)

SettingPool ==
    { Setting(Str("greeting"), Str("string"), undefined),
      Setting(Str("mode"), Str("select"), Arr(<<Str("a")>>)),
      Setting(Str("mode"), Str("select"), Arr(<<>>)),
      Setting(Str("pick"), Str("select"), Str("a")),
      Setting(Str("level"), Str("integer"), undefined),
      Setting(undefined, Str("select"), undefined),
      Setting(Str(""), Str("select"), undefined),
      null }

SettingsFamily ==
    { With(Base, "settings", v) :
        v \in {Arr(a) : a \in SeqsUpTo(SettingPool, MaxSettings)}
              \cup {Arr(<<Setting(Num(5), Str("string"), undefined), Num(5),
                          Setting(Str("n"), undefined, undefined)>>),
                    Obj(<<>>), null} }

DigestOk == "sha256:" \o Rep("0123456789abcdef", 4)

IconValues ==
    { undefined, null, Str("ftp://x"), Str("https://x"), Str("http://x"), Str("http:/"),
      Str(""), Num(5) }

DigestValues ==
    { undefined, null, Str(DigestOk), Str("sha256:" \o Rep("0123456789ABCDEF", 4)),
      Str(DigestOk \o "0"), Str("sha256:abc"), Num(5) }

IconDigestFamily ==
    { With(With(Base, "icon", i), "image_digest", d) : i \in IconValues, d \in DigestValues }

\* a root that is no object
RootFamily == { null, Num(5), Str("abc"), Bool(TRUE), Arr(<<>>), Arr(<<Base>>), Obj(<<>>) }

\* several sections at once, some faulty
MixedFamily ==
    { With(With(With(With(With(With(Base,
        "image", img), "icon", ic), "permissions", pm), "mcp", mc), "extensions", ex),
        "settings", st) :
        img \in {undefined, Str("img:tag")},
        ic  \in {undefined, Str("ftp://x")},
        pm  \in {undefined, Arr(<<Str("bogus")>>), Arr(<<Num(5)>>)},
        mc  \in {undefined, Obj(<<KV("tools", Arr(<<>>))>>),
                 Obj(<<KV("tools", Arr(<<Tool(Str("a_1"), Str("d"), SchemaOk, undefined)>>))>>),
                 Obj(<<KV("tools", Arr(<<Tool(Str("Bad Name"), undefined, undefined,
                                               undefined)>>))>>)},
        ex  \in {undefined, Obj(<<>>), Obj(<<KV("Bad.Id", Arr(<<>>))>>)},
        st  \in {undefined, Arr(<<>>), Arr(<<Setting(Str("mode"), Str("select"), undefined)>>)} }

Manifests ==
    RequiredFamily \cup PermissionsFamily \cup ToolsFamily \cup ExtensionsFamily
    \cup SettingsFamily \cup IconDigestFamily \cup RootFamily \cup MixedFamily

\* the manifests tried with a target that is the manifest file itself
FileTargetManifests == RootFamily \cup MixedFamily

-----------------------------------------------------------------------------
(* The state machine: one run of "nexus-plugin validate [path] [--json]".  *)

\* the file states a target admits: a missing target has no plugin.json under it,
\* a target that is a file exists
FileStates(tg) ==
    CASE tg = "missing" -> {"missing"}
      [] tg = "file"    -> {"unreadable", "invalid", "json"}
      [] OTHER          -> {"missing", "unreadable", "invalid", "json"}

\* no earlier run; otherwise what the earlier run was given and what it left, and how
\* the files of this run differ from its files: "same" content, or the "icon" edited
NoRun == [ran |-> FALSE, edit |-> "none", target |-> "", dockerfile |-> FALSE,
          jsonMode |-> FALSE, results |-> <<>>, errors |-> 0, warnings |-> 0,
          ret |-> "none", exitCode |-> -1]

\* init has gathered nothing
NoConfig == [name |-> "", author |-> "", slug |-> "", id |-> "", outDir |-> "", set |-> FALSE,
             description |-> "", port |-> 0, permissions |-> <<>>,
             includeMcp |-> FALSE, includeSettings |-> FALSE]

\* neither publish nor init has done anything, and no run came before
\* fetchExistingEntry found nothing: { exists: false }
NoExisting == [exists |-> FALSE, created_at |-> null, categories |-> <<>>]

\* let manifestUrl; let categories; let manifestSha256; imageDigest not yet resolved
NoMeta == [manifestUrl |-> undefined, categories |-> <<>>, manifestSha256 |-> undefined,
           imageDigest |-> null]

\* the entry is not built yet
NoEntry == [built |-> FALSE, categories |-> <<>>, created_at |-> "", image_digest |-> null,
            manifest_sha256 |-> undefined, manifest_url |-> undefined]

Idle ==
    /\ prev = NoRun
    /\ cmds = <<>>
    /\ remote = {}
    /\ tmpFile = FALSE
    /\ isUpdate = FALSE
    /\ ghUser = ""
    /\ existing = NoExisting
    /\ meta = NoMeta
    /\ entry = NoEntry
    /\ unlinkFailed = FALSE
    /\ config = NoConfig
    /\ disk = {}
    /\ before = {}

NoArgs == [name |-> undefined, author |-> undefined, out |-> undefined,
           manifestUrl |-> undefined, categories |-> undefined]

Init ==
    /\ command = "validate"
    /\ ci = FALSE
    /\ args = NoArgs
    /\ target \in {"missing", "dir", "file"}
    /\ file \in FileStates(target)
    /\ manifest \in (IF file # "json" THEN {undefined}
                     ELSE IF target = "file" THEN FileTargetManifests ELSE Manifests)
    /\ dockerfile \in (IF target = "missing" THEN {FALSE} ELSE BOOLEAN)
    /\ jsonMode \in BOOLEAN
    /\ manifestPath = ""
    /\ pc = "start"
    /\ results = <<>>
    /\ errors = 0
    /\ warnings = 0
    /\ stdout = <<>>
    /\ stderr = <<>>
    /\ ret = "none"
    /\ exitCode = -1
    /\ Idle

Acc == [results |-> results, errors |-> errors, warnings |-> warnings, threw |-> FALSE]

\* results, errors and warnings become those of acc
Store(acc) ==
    /\ results' = acc.results
    /\ errors' = acc.errors
    /\ warnings' = acc.warnings

Inputs == <<target, file, manifest, dockerfile, jsonMode>>

\* path.resolve(target), then statSync(dir).isDirectory() ? join(dir, "plugin.json") : dir
Resolve ==
    /\ pc = "start"
    /\ manifestPath' = IF target = "file" THEN "/cwd/target" ELSE "/cwd/target/plugin.json"
    /\ Store(Acc0)
    /\ pc' = "exists"
    /\ UNCHANGED <<Beyond, Inputs, stdout, stderr, ret, exitCode>>

\* if (!fs.existsSync(manifestPath)) { fail(...); return output(...) }
CheckExists ==
    /\ pc = "exists"
    /\ IF file = "missing"
       THEN Store(fail(Acc, Msg("plugin.json not found", <<>>))) /\ pc' = "output"
       ELSE Store(Acc) /\ pc' = "read"
    /\ UNCHANGED <<Beyond, Inputs, manifestPath, stdout, stderr, ret, exitCode>>

\* raw = fs.readFileSync(manifestPath, "utf8"), or the read error as a fail
ReadFile ==
    /\ pc = "read"
    /\ IF file = "unreadable"
       THEN Store(fail(Acc, Msg("Cannot read plugin.json: ", <<"err.message">>)))
            /\ pc' = "output"
       ELSE Store(Acc) /\ pc' = "parse"
    /\ UNCHANGED <<Beyond, Inputs, manifestPath, stdout, stderr, ret, exitCode>>

\* ParseJson without the return after the fail: the rule pass goes on
ParseJson_NoReturn ==
    /\ pc = "parse"
    /\ IF file = "invalid"
       THEN Store(fail(Acc, Msg("Invalid JSON: ", <<"err.message">>))) /\ pc' = "dockerfile"
       ELSE Store(Acc) /\ pc' = "required"
    /\ UNCHANGED <<Beyond, Inputs, manifestPath, stdout, stderr, ret, exitCode>>

\* manifest = JSON.parse(raw), or the parse error as a fail
ParseJson ==
    /\ pc = "parse"
    /\ IF file = "invalid"
       THEN Store(fail(Acc, Msg("Invalid JSON: ", <<"err.message">>))) /\ pc' = "output"
       ELSE Store(Acc) /\ pc' = "required"
    /\ UNCHANGED <<Beyond, Inputs, manifestPath, stdout, stderr, ret, exitCode>>

\* one check group: from position here to position next, or to "threw"
Group(here, acc, next) ==
    /\ pc = here
    /\ Store(acc)
    /\ pc' = IF acc.threw THEN "threw" ELSE next
    /\ UNCHANGED <<Beyond, Inputs, manifestPath, stdout, stderr, ret, exitCode>>

CheckRequired    == Group("required", RequiredFields(Acc, manifest), "length")
CheckLength      == Group("length", LengthLimits(Acc, manifest), "bidi")
CheckBidi        == Group("bidi", BidiScan(Acc, manifest), "icon")
CheckIcon        == Group("icon", IconUrl(Acc, manifest), "digest")
CheckDigest      == Group("digest", ImageDigest(Acc, manifest), "permissions")
CheckPermissions == Group("permissions", Permissions(Acc, manifest), "mcp")
CheckMcpTools    == Group("mcp", McpTools(Acc, manifest), "extensions")
CheckExtensions  == Group("extensions", Extensions(Acc, manifest), "settings")
CheckSettings    == Group("settings", Settings(Acc, manifest), "dockerfile")
CheckDockerfile  ==
    Group("dockerfile", DockerfileCheck(Acc, SiblingDockerfile(target, dockerfile)), "output")

\* output without the return at the end of its human-readable branch
Output_HumanReturnsNothing ==
    /\ pc = "output"
    /\ stdout' = stdout \o OutputLines(manifestPath, results, errors, warnings, jsonMode)
    /\ ret' = IF jsonMode THEN OutputValue(errors) ELSE "undefined"
    /\ pc' = "returned"
    /\ UNCHANGED <<Beyond, Inputs, manifestPath, results, errors, warnings, stderr, exitCode>>

\* return output(manifestPath, results, errors, warnings, jsonMode)
Output ==
    /\ pc = "output"
    /\ stdout' = stdout \o OutputLines(manifestPath, results, errors, warnings, jsonMode)
    /\ ret' = OutputValue(errors)
    /\ pc' = "returned"
    /\ UNCHANGED <<Beyond, Inputs, manifestPath, results, errors, warnings, stderr, exitCode>>

\* main: process.exit(ok ? 0 : 1)
Exit ==
    /\ command = "validate"
    /\ pc = "returned"
    /\ exitCode' = IF ret = "true" THEN 0 ELSE 1
    /\ pc' = "exited"
    /\ UNCHANGED <<Beyond, Inputs, manifestPath, results, errors, warnings, stdout, stderr, ret>>

\* main().catch: console.error(Fatal: err.message); process.exit(1)
Fatal ==
    /\ pc = "threw"
    /\ stderr' = Append(stderr, [kind |-> "fatal"])
    /\ exitCode' = 1
    /\ pc' = "exited"
    /\ UNCHANGED <<Beyond, Inputs, manifestPath, results, errors, warnings, stdout, ret>>

Next ==
    \/ Resolve
    \/ CheckExists
    \/ ReadFile
    \/ ParseJson
    \/ CheckRequired
    \/ CheckLength
    \/ CheckBidi
    \/ CheckIcon
    \/ CheckDigest
    \/ CheckPermissions
    \/ CheckMcpTools
    \/ CheckExtensions
    \/ CheckSettings
    \/ CheckDockerfile
    \/ Output
    \/ Exit
    \/ Fatal

Spec == Init /\ [][Next]_vars

-----------------------------------------------------------------------------
(* Two runs of the validate command, one after the other: over the same    *)
(* content (the same file, or another file with the same content), or      *)
(* after an edit of the manifest that changes only its icon.               *)

\* the manifests of the two-run specification
TwiceManifests ==
    RootFamily \cup IconDigestFamily
    \cup { m \in MixedFamily :
             /\ Prop(m, "icon") = Str("ftp://x")
             /\ Prop(m, "image") # undefined
             /\ Prop(m, "extensions") = undefined
             /\ Prop(m, "settings") = undefined }

InitTwice ==
    /\ command = "validate"
    /\ ci = FALSE
    /\ args = NoArgs
    /\ target \in {"dir", "file"}
    /\ file \in FileStates(target)
    /\ manifest \in (IF file # "json" THEN {undefined} ELSE TwiceManifests)
    /\ dockerfile \in BOOLEAN
    /\ jsonMode \in BOOLEAN
    /\ manifestPath = ""
    /\ pc = "start"
    /\ results = <<>>
    /\ errors = 0
    /\ warnings = 0
    /\ stdout = <<>>
    /\ stderr = <<>>
    /\ ret = "none"
    /\ exitCode = -1
    /\ Idle

\* what the run that has just exited leaves for the next one to be compared with
Snapshot(edit) ==
    [ran |-> TRUE, edit |-> edit, target |-> target, dockerfile |-> dockerfile,
     jsonMode |-> jsonMode, results |-> results, errors |-> errors,
     warnings |-> warnings, ret |-> ret, exitCode |-> exitCode]

\* a new process starts
Restart ==
    /\ manifestPath' = ""
    /\ pc' = "start"
    /\ results' = <<>>
    /\ errors' = 0
    /\ warnings' = 0
    /\ stdout' = <<>>
    /\ stderr' = <<>>
    /\ ret' = "none"
    /\ exitCode' = -1

\* the command is run again over a file with the same content: the same file or another
\* one, given as a file or by its directory, in either output mode, with or without a
\* Dockerfile next to it
Again ==
    /\ pc = "exited"
    /\ ~ prev.ran
    /\ prev' = Snapshot("same")
    /\ target' \in (IF file = "missing" THEN {"dir"} ELSE {"dir", "file"})
    /\ dockerfile' \in BOOLEAN
    /\ jsonMode' \in BOOLEAN
    /\ Restart
    /\ UNCHANGED <<Cli, PublishVars, InitVars, file, manifest>>

\* the icon of the manifest is changed from "ftp://x" to "https://x", nothing else is,
\* and the command is run again the same way
EditIcon ==
    /\ pc = "exited"
    /\ ~ prev.ran
    /\ file = "json"
    /\ ~ Throws(manifest)
    /\ Prop(manifest, "icon") = Str("ftp://x")
    /\ prev' = Snapshot("icon")
    /\ manifest' = With(manifest, "icon", Str("https://x"))
    /\ Restart
    /\ UNCHANGED <<Cli, PublishVars, InitVars, target, file, dockerfile, jsonMode>>

NextTwice ==
    \/ Next
    \/ Again
    \/ EditIcon

SpecTwice == InitTwice /\ [][NextTwice]_vars

-----------------------------------------------------------------------------
(* The publish command (src/lib/publish.js): validate(".", { json: ci }),  *)
(* then the steps that shell out to gh, curl and docker.  The outcome of   *)
(* an external command is chosen by the environment.                       *)

REGISTRY_OWNER == "imdanibytes"

ValidateVars == <<Inputs, manifestPath, results, errors, warnings, ret>>

\* what no step of publish after validate changes
Untouched == <<Cli, prev, InitVars, ValidateVars>>

\* the values publish keeps between its later steps
Locals == <<existing, meta, entry, unlinkFailed>>

\* log(msg): console.log(msg) unless ci
Log(out, msg) == IF ci THEN out ELSE Append(out, [kind |-> "log", msg |-> msg])

\* the error publish writes to standard error: a JSON record when ci, text otherwise
Err(code) == [kind |-> "error", error |-> code, json |-> ci]

\* console.error(...); process.exit(1)
Die(code) ==
    /\ stderr' = Append(stderr, Err(code))
    /\ exitCode' = 1
    /\ pc' = "exited"

\* the manifests publish is run on
PublishManifests ==
    { Base,
      With(Base, "homepage", Str("https://github.com/me/nexus-x")),
      With(Base, "homepage", Str("")),
      With(Base, "homepage", Num(5)),
      With(Base, "icon", Str("ftp://x")),
      With(Base, "image", undefined),
      With(Base, "permissions", Arr(<<Num(5)>>)),
      null }

InitPublish ==
    /\ command = "publish"
    /\ ci \in BOOLEAN
    /\ args \in { [NoArgs EXCEPT !.manifestUrl = u, !.categories = c] :
                    u \in {undefined, Str("https://example.org/plugin.json")},
                    c \in {undefined, Str("ai, fun"), Str(" ,")} }
    /\ target = "dir"
    /\ file \in FileStates("dir")
    /\ manifest \in (IF file # "json" THEN {undefined} ELSE PublishManifests)
    /\ dockerfile \in BOOLEAN
    /\ jsonMode = ci
    /\ manifestPath = ""
    /\ pc = "p_start"
    /\ results = <<>>
    /\ errors = 0
    /\ warnings = 0
    /\ stdout = <<>>
    /\ stderr = <<>>
    /\ ret = "none"
    /\ exitCode = -1
    /\ Idle

\* the banner and "Step 1: Validating manifest...", then validate(".", { json: ci })
PublishStart ==
    /\ command = "publish"
    /\ pc = "p_start"
    /\ stdout' = Log(Log(stdout, "nexus-plugin publish"), "Step 1: Validating manifest...")
    /\ pc' = "start"
    /\ UNCHANGED <<Untouched, PublishVars, stderr, exitCode>>

\* the gate without its process.exit(1): the error is written and publish goes on
PublishGate_NoExit ==
    /\ command = "publish"
    /\ pc = "returned"
    /\ stderr' = IF ret # "true" THEN Append(stderr, Err("validation_failed")) ELSE stderr
    /\ pc' = "p_auth"
    /\ UNCHANGED <<Untouched, PublishVars, stdout, exitCode>>

\* if (!ok) { console.error(...); process.exit(1) }, then the manifest is read again
PublishGate ==
    /\ command = "publish"
    /\ pc = "returned"
    /\ IF ret # "true"
       THEN Die("validation_failed")
       ELSE pc' = "p_auth" /\ UNCHANGED <<stderr, exitCode>>
    /\ UNCHANGED <<Untouched, PublishVars, stdout>>

\* execSafe("gh auth status")
GhAuth ==
    /\ pc = "p_auth"
    /\ cmds' = Append(cmds, "gh auth status")
    /\ \E ok \in BOOLEAN :
          IF ok
          THEN /\ stdout' = Log(Log(stdout, "Step 2: Checking GitHub CLI..."),
                                "gh authenticated")
               /\ pc' = "p_fork"
               /\ UNCHANGED <<stderr, exitCode>>
          ELSE /\ stdout' = Log(stdout, "Step 2: Checking GitHub CLI...")
               /\ Die("gh_auth_failed")
    /\ UNCHANGED <<Untouched, remote, tmpFile, isUpdate, ghUser, Locals>>

\* execSafe(gh repo fork ... --clone=false): its failure is ignored
Fork ==
    /\ pc = "p_fork"
    /\ cmds' = Append(cmds, "gh repo fork")
    /\ \E ok \in BOOLEAN : remote' = IF ok THEN remote \cup {"fork"} ELSE remote
    /\ stdout' = Log(Log(stdout, "Step 3: Ensuring registry fork..."), "Fork ready")
    /\ pc' = "p_user"
    /\ UNCHANGED <<Untouched, tmpFile, isUpdate, ghUser, Locals, stderr, exitCode>>

\* ghUser = exec("gh api user --jq .login"): exec throws when the command fails
GhUser ==
    /\ pc = "p_user"
    /\ cmds' = Append(cmds, "gh api user")
    /\ \E login \in {"", REGISTRY_OWNER, "someone"} :
          IF login = ""
          THEN pc' = "threw" /\ UNCHANGED ghUser
          ELSE pc' = "p_existing" /\ ghUser' = login
    /\ UNCHANGED <<Untouched, remote, tmpFile, isUpdate, Locals, stdout, stderr, exitCode>>

RECURSIVE TrimStart(_)
TrimStart(str) ==
    IF str # "" /\ CharAt(str, 1) = " " THEN TrimStart(SubSeq(str, 2, Len(str))) ELSE str

RECURSIVE TrimEnd(_)
TrimEnd(str) ==
    IF str # "" /\ CharAt(str, Len(str)) = " " THEN TrimEnd(SubSeq(str, 1, Len(str) - 1)) ELSE str

\* str.trim(), for strings whose only white space is the space
Trim(str) == TrimEnd(TrimStart(str))

RECURSIVE Split(_, _)
\* str.split(","): cur is the piece read so far
Split(str, cur) ==
    IF str = "" THEN <<cur>>
    ELSE IF CharAt(str, 1) = "," THEN <<cur>> \o Split(SubSeq(str, 2, Len(str)), "")
    ELSE Split(SubSeq(str, 2, Len(str)), cur \o CharAt(str, 1))

RECURSIVE TrimmedNonEmpty(_)
\* pieces.map((s) => s.trim()).filter(Boolean)
TrimmedNonEmpty(pieces) ==
    IF pieces = <<>> THEN <<>>
    ELSE (IF Trim(Head(pieces)) = "" THEN <<>> ELSE <<Trim(Head(pieces))>>)
         \o TrimmedNonEmpty(Tail(pieces))

\* parseCategories(val)
parseCategories(val) ==
    IF ~ Truthy(val) THEN <<>> ELSE TrimmedNonEmpty(Split(ToStr(val), ""))

\* the lines of buildPluginYaml(entry) that fetchExistingEntry reads back, among others
buildPluginYaml(e) ==
    <<"author: me">>
    \o <<"categories:">>
    \o [i \in 1..Len(e.categories) |-> "- " \o e.categories[i]]
    \o <<"created_at: " \o e.created_at, "description: d", "status: active">>

RECURSIVE WithoutCreatedAt(_)
\* an entry written without a created_at line
WithoutCreatedAt(lines) ==
    IF lines = <<>> THEN <<>>
    ELSE (IF StartsWith(Head(lines), "created_at:") THEN <<>> ELSE <<Head(lines)>>)
         \o WithoutCreatedAt(Tail(lines))

\* content.match(/^created_at:\s*(.+)$/m): the rest of the first created_at line that
\* has one, trimmed; null without such a line
CreatedAtOf(lines) ==
    LET hits == { i \in 1..Len(lines) :
                    /\ StartsWith(lines[i], "created_at:")
                    /\ Trim(SubSeq(lines[i], 12, Len(lines[i]))) # "" }
    IN  IF hits = {} THEN null
        ELSE LET i == CHOOSE j \in hits : \A k \in hits : j <= k
             IN  Str(Trim(SubSeq(lines[i], 12, Len(lines[i]))))

\* a line of the form "- x"
IsItem(line) == StartsWith(line, "- ") /\ Len(line) > 2

RECURSIVE Items(_, _)
\* the items of the run of "- x" lines that starts at line i
Items(lines, i) ==
    IF i > Len(lines) \/ ~ IsItem(lines[i]) THEN <<>>
    ELSE <<Trim(SubSeq(lines[i], 3, Len(lines[i])))>> \o Items(lines, i + 1)

\* content.match(/^categories:\n((?:- .+\n)+)/m) and the items of its group
CategoriesOf(lines) ==
    LET hits == { i \in 1..(Len(lines) - 1) : lines[i] = "categories:" /\ IsItem(lines[i + 1]) }
    IN  IF hits = {} THEN <<>>
        ELSE Items(lines, 1 + CHOOSE j \in hits : \A k \in hits : j <= k)

OldCreatedAt == "2024-01-01T00:00:00.000Z"

\* the entries the registry can hold for the id, as publish wrote them earlier
RegistryContents ==
    LET written == { buildPluginYaml([categories |-> c, created_at |-> OldCreatedAt]) :
                       c \in { <<>>, <<"fun">>, <<"ai", "fun">> } }
    IN  written \cup { WithoutCreatedAt(w) : w \in written }

\* fetchExistingEntry(yamlFile), given the decoded content or no content
fetchExistingEntry(found, lines) ==
    IF ~ found THEN NoExisting
    ELSE [exists |-> TRUE, created_at |-> CreatedAtOf(lines), categories |-> CategoriesOf(lines)]

\* existing = fetchExistingEntry(yamlFile); isUpdate = existing.exists
FetchExisting ==
    /\ pc = "p_existing"
    /\ \E found \in BOOLEAN, lines \in RegistryContents :
          /\ cmds' = cmds \o (IF found THEN <<"gh api contents .content", "gh api contents .sha">>
                              ELSE <<"gh api contents .content">>)
          /\ existing' = fetchExistingEntry(found, lines)
          /\ isUpdate' = existing'.exists
          /\ stdout' = Log(Log(stdout, "Step 4: Checking registry..."),
                           IF found THEN "Existing entry found" ELSE "New plugin")
    /\ pc' = "p_meta"
    /\ UNCHANGED <<Untouched, remote, tmpFile, ghUser, meta, entry, unlinkFailed, stderr, exitCode>>

\* the answer to "Raw GitHub URL to your plugin.json": what was typed, or the default
AskedUrl == Str("https://raw.githubusercontent.com/someone/nexus-b/main/plugin.json")

\* the manifest URL and the categories: from the flags, or an error when ci, or from
\* the prompts
GatherMetadata ==
    /\ pc = "p_meta"
    /\ IF Truthy(args.manifestUrl)
       THEN /\ meta' = [meta EXCEPT
                 !.manifestUrl = args.manifestUrl,
                 !.categories =
                     IF parseCategories(args.categories) # <<>>
                     THEN parseCategories(args.categories)
                     ELSE IF isUpdate /\ Len(existing.categories) > 0
                     THEN existing.categories
                     ELSE <<"utilities">>]
            /\ pc' = "p_hash"
            /\ UNCHANGED <<stdout, stderr, exitCode>>
       ELSE IF ci
       THEN Die("missing_flags") /\ UNCHANGED <<meta, stdout>>
       ELSE /\ \E chosen \in { <<>>, <<"monitoring">> } :
                  /\ meta' = [meta EXCEPT
                         !.manifestUrl = AskedUrl,
                         !.categories =
                             IF isUpdate /\ Len(existing.categories) > 0
                             THEN existing.categories
                             ELSE IF chosen = <<>> THEN <<"utilities">> ELSE chosen]
                  /\ stdout' = IF isUpdate /\ Len(existing.categories) > 0
                               THEN Log(stdout, "Using existing categories")
                               ELSE Append(stdout, [kind |-> "select", question |-> "Categories:",
                                                    answer |-> chosen])
            /\ pc' = "p_hash"
            /\ UNCHANGED <<stderr, exitCode>>
    /\ UNCHANGED <<Untouched, cmds, remote, tmpFile, isUpdate, ghUser, existing, entry, unlinkFailed>>

\* sha256(content) of the fetched content: 64 hex characters
Sha256Hex == Rep("0f", 32)

\* fetchManifestHash(manifestUrl): exec(curl ...) and its SHA-256
ManifestHash ==
    /\ pc = "p_hash"
    /\ cmds' = Append(cmds, "curl")
    /\ \E ok \in BOOLEAN :
          IF ok
          THEN /\ meta' = [meta EXCEPT !.manifestSha256 = Str(Sha256Hex)]
               /\ stdout' = Log(Log(stdout, "Step 5: Computing manifest hash..."),
                                "manifest_sha256")
               /\ pc' = "p_digest"
               /\ UNCHANGED <<stderr, exitCode>>
          ELSE /\ stdout' = Log(stdout, "Step 5: Computing manifest hash...")
               /\ Die("manifest_fetch_failed")
               /\ UNCHANGED meta
    /\ UNCHANGED <<Untouched, remote, tmpFile, isUpdate, ghUser, existing, entry, unlinkFailed>>

\* the commands getImageDigest(image) runs for each way it can go: the local inspect
\* gives a digest; or the pull succeeds and the second inspect gives one or none; or the
\* pull fails
DigestCommands(how) ==
    CASE how = "local"    -> <<"docker inspect">>
      [] how = "pulled"   -> <<"docker inspect", "docker pull", "docker inspect">>
      [] how = "nodigest" -> <<"docker inspect", "docker pull", "docker inspect">>
      [] OTHER            -> <<"docker inspect", "docker pull">>

\* the digest step without its process.exit(1): the error is written and publish goes on
ImageDigestStep_NoExit ==
    /\ pc = "p_digest"
    /\ \E how \in {"local", "pulled", "nodigest", "pullfailed"} :
          /\ cmds' = cmds \o DigestCommands(how)
          /\ IF how \in {"local", "pulled"}
             THEN /\ meta' = [meta EXCEPT !.imageDigest = Str(DigestOk)]
                  /\ stdout' = Log(Log(stdout, "Step 6: Resolving Docker image digest..."),
                                   "image_digest")
                  /\ UNCHANGED stderr
             ELSE /\ stdout' = Log(stdout, "Step 6: Resolving Docker image digest...")
                  /\ stderr' = Append(stderr, Err("image_digest_unavailable"))
                  /\ UNCHANGED meta
    /\ pc' = "p_entry"
    /\ UNCHANGED <<Untouched, remote, tmpFile, isUpdate, ghUser, existing, entry, unlinkFailed,
                   exitCode>>

\* imageDigest = getImageDigest(manifest.image), required
ImageDigestStep ==
    /\ pc = "p_digest"
    /\ \E how \in {"local", "pulled", "nodigest", "pullfailed"} :
          /\ cmds' = cmds \o DigestCommands(how)
          /\ IF how \in {"local", "pulled"}
             THEN /\ meta' = [meta EXCEPT !.imageDigest = Str(DigestOk)]
                  /\ stdout' = Log(Log(stdout, "Step 6: Resolving Docker image digest..."),
                                   "image_digest")
                  /\ pc' = "p_entry"
                  /\ UNCHANGED <<stderr, exitCode>>
             ELSE /\ stdout' = Log(stdout, "Step 6: Resolving Docker image digest...")
                  /\ Die("image_digest_unavailable")
                  /\ UNCHANGED meta
    /\ UNCHANGED <<Untouched, remote, tmpFile, isUpdate, ghUser, existing, entry, unlinkFailed>>

\* new Date().toISOString() when the entry is built
Now == "2026-11-01T00:00:00.000Z"

\* the entry built with created_at always the current time
BuildEntry_AlwaysNow ==
    /\ pc = "p_entry"
    /\ IF Truthy(Prop(manifest, "homepage")) /\ Prop(manifest, "homepage").t # "string"
       THEN pc' = "threw" /\ UNCHANGED <<entry, stdout>>
       ELSE /\ entry' = [built |-> TRUE,
                         categories |-> meta.categories,
                         created_at |-> Now,
                         image_digest |-> meta.imageDigest,
                         manifest_sha256 |-> meta.manifestSha256,
                         manifest_url |-> meta.manifestUrl]
            /\ stdout' = IF ci THEN stdout
                         ELSE Append(stdout, [kind |-> "entry", yaml |-> buildPluginYaml(entry')])
            /\ pc' = "p_sync"
    /\ UNCHANGED <<Untouched, cmds, remote, tmpFile, isUpdate, ghUser, existing, meta, unlinkFailed,
                   stderr, exitCode>>

\* the entry and its YAML: manifest.homepage.replace(...) raises a TypeError for a
\* homepage that is truthy and no string
BuildEntry ==
    /\ pc = "p_entry"
    /\ IF Truthy(Prop(manifest, "homepage")) /\ Prop(manifest, "homepage").t # "string"
       THEN pc' = "threw" /\ UNCHANGED <<entry, stdout>>
       ELSE /\ entry' = [built |-> TRUE,
                         categories |-> meta.categories,
                         created_at |-> IF isUpdate /\ Truthy(existing.created_at)
                                        THEN existing.created_at.s
                                        ELSE Now,
                         image_digest |-> meta.imageDigest,
                         manifest_sha256 |-> meta.manifestSha256,
                         manifest_url |-> meta.manifestUrl]
            /\ stdout' = IF ci THEN stdout
                         ELSE Append(stdout, [kind |-> "entry", yaml |-> buildPluginYaml(entry')])
            /\ pc' = "p_sync"
    /\ UNCHANGED <<Untouched, cmds, remote, tmpFile, isUpdate, ghUser, existing, meta, unlinkFailed,
                   stderr, exitCode>>

\* execSafe(gh repo sync ...)
SyncFork ==
    /\ pc = "p_sync"
    /\ cmds' = Append(cmds, "gh repo sync")
    /\ \E ok \in BOOLEAN : remote' = IF ok THEN remote \cup {"sync"} ELSE remote
    /\ stdout' = Log(stdout, "Step 7: Creating branch on fork...")
    /\ pc' = "p_sha"
    /\ UNCHANGED <<Untouched, tmpFile, isUpdate, ghUser, Locals, stderr, exitCode>>

\* defaultSha = exec(gh api .../git/ref/heads/main)
DefaultSha ==
    /\ pc = "p_sha"
    /\ cmds' = Append(cmds, "gh api ref heads/main")
    /\ \E ok \in BOOLEAN : pc' = IF ok THEN "p_delete" ELSE "threw"
    /\ UNCHANGED <<Untouched, remote, tmpFile, isUpdate, ghUser, Locals, stdout, stderr, exitCode>>

\* execSafe(gh api .../git/refs/heads/branch -X DELETE): a stale branch is deleted
DeleteStale ==
    /\ pc = "p_delete"
    /\ cmds' = Append(cmds, "gh api DELETE ref")
    /\ \E ok \in BOOLEAN : remote' = IF ok THEN remote \cup {"stale branch deleted"} ELSE remote
    /\ pc' = "p_branch"
    /\ UNCHANGED <<Untouched, tmpFile, isUpdate, ghUser, Locals, stdout, stderr, exitCode>>

\* exec(gh api .../git/refs -f ref=refs/heads/branch -f sha=defaultSha)
CreateBranch ==
    /\ pc = "p_branch"
    /\ cmds' = Append(cmds, "gh api create ref")
    /\ \E ok \in BOOLEAN :
          IF ok
          THEN /\ remote' = remote \cup {"branch"}
               /\ stdout' = Log(stdout, "Branch created")
               /\ pc' = "p_commit"
          ELSE pc' = "threw" /\ UNCHANGED <<remote, stdout>>
    /\ UNCHANGED <<Untouched, tmpFile, isUpdate, ghUser, Locals, stderr, exitCode>>

\* the file SHA on the branch when updating, then exec(gh api ... -X PUT ...)
CommitEntry ==
    /\ pc = "p_commit"
    /\ \E how \in {"shafailed", "putfailed", "ok"} :
          /\ how = "shafailed" => isUpdate
          /\ cmds' = cmds \o (IF isUpdate THEN <<"gh api contents ref .sha">> ELSE <<>>)
                          \o (IF how = "shafailed" THEN <<>> ELSE <<"gh api PUT contents">>)
          /\ IF how = "ok"
             THEN /\ remote' = remote \cup {"commit"}
                  /\ stdout' = Log(Log(stdout, "Step 8: Committing plugin entry..."),
                                   "Committed")
                  /\ pc' = "p_body"
             ELSE /\ stdout' = Log(stdout, "Step 8: Committing plugin entry...")
                  /\ pc' = "threw"
                  /\ UNCHANGED remote
    /\ UNCHANGED <<Untouched, tmpFile, isUpdate, ghUser, Locals, stderr, exitCode>>

\* fs.writeFileSync(bodyFile, prBody)
WriteBody ==
    /\ pc = "p_body"
    /\ stdout' = Log(stdout, "Step 9: Opening pull request...")
    /\ \E ok \in BOOLEAN :
          IF ok THEN tmpFile' = TRUE /\ pc' = "p_pr"
          ELSE pc' = "threw" /\ UNCHANGED tmpFile
    /\ UNCHANGED <<Untouched, cmds, remote, isUpdate, ghUser, Locals, stderr, exitCode>>

\* the step without its finally: the file is unlinked only after gh pr create succeeded
OpenPr_NoFinally ==
    /\ pc = "p_pr"
    /\ cmds' = Append(cmds, "gh pr create")
    /\ \E ok \in BOOLEAN, unlinked \in BOOLEAN :
          /\ tmpFile' = IF ok THEN ~ unlinked ELSE tmpFile
          /\ unlinkFailed' = (ok /\ ~ unlinked)
          /\ IF ok THEN remote' = remote \cup {"pr"} /\ pc' = "p_merge"
             ELSE pc' = "threw" /\ UNCHANGED remote
    /\ UNCHANGED <<Untouched, isUpdate, ghUser, existing, meta, entry, stdout, stderr, exitCode>>

\* try { prUrl = exec(gh pr create ...) } finally { try { unlinkSync(bodyFile) } catch {} }:
\* unlinkSync can raise, and the error is swallowed
OpenPr ==
    /\ pc = "p_pr"
    /\ cmds' = Append(cmds, "gh pr create")
    /\ \E ok \in BOOLEAN, unlinked \in BOOLEAN :
          /\ tmpFile' = ~ unlinked
          /\ unlinkFailed' = ~ unlinked
          /\ IF ok THEN remote' = remote \cup {"pr"} /\ pc' = "p_merge"
             ELSE pc' = "threw" /\ UNCHANGED remote
    /\ UNCHANGED <<Untouched, isUpdate, ghUser, existing, meta, entry, stdout, stderr, exitCode>>

\* if (ghUser === REGISTRY_OWNER) execSafe(gh pr merge --auto ...)
AutoMerge ==
    /\ pc = "p_merge"
    /\ IF ghUser = REGISTRY_OWNER
       THEN /\ cmds' = Append(cmds, "gh pr merge")
            /\ \E ok \in BOOLEAN : remote' = IF ok THEN remote \cup {"auto-merge"} ELSE remote
            /\ stdout' = Log(stdout, "Step 10: Enabling auto-merge...")
       ELSE UNCHANGED <<cmds, remote, stdout>>
    /\ pc' = "p_done"
    /\ UNCHANGED <<Untouched, tmpFile, isUpdate, ghUser, Locals, stderr, exitCode>>

\* the final record, or the two final lines; publish returns and the process ends
PublishDone ==
    /\ pc = "p_done"
    /\ stdout' = Append(stdout, [kind |-> "published", json |-> ci])
    /\ exitCode' = 0
    /\ pc' = "exited"
    /\ UNCHANGED <<Untouched, PublishVars, stderr>>

NextPublish ==
    \/ PublishStart
    \/ Resolve
    \/ CheckExists
    \/ ReadFile
    \/ ParseJson
    \/ CheckRequired
    \/ CheckLength
    \/ CheckBidi
    \/ CheckIcon
    \/ CheckDigest
    \/ CheckPermissions
    \/ CheckMcpTools
    \/ CheckExtensions
    \/ CheckSettings
    \/ CheckDockerfile
    \/ Output
    \/ PublishGate
    \/ GhAuth
    \/ Fork
    \/ GhUser
    \/ FetchExisting
    \/ GatherMetadata
    \/ ManifestHash
    \/ ImageDigestStep
    \/ BuildEntry
    \/ SyncFork
    \/ DefaultSha
    \/ DeleteStale
    \/ CreateBranch
    \/ CommitEntry
    \/ WriteBody
    \/ OpenPr
    \/ AutoMerge
    \/ PublishDone
    \/ Fatal

SpecPublish == InitPublish /\ [][NextPublish]_vars

-----------------------------------------------------------------------------
(* The init command (src/lib/init.js): the name and the other values from  *)
(* the flags or from the prompts, then the directory and the six files.    *)

UpperCase == "ABCDEFGHIJKLMNOPQRSTUVWXYZ"
LowerCase == "abcdefghijklmnopqrstuvwxyz"

\* c.toLowerCase() for one character
LowerChar(c) ==
    IF \E i \in 1..26 : CharAt(UpperCase, i) = c
    THEN CharAt(LowerCase, CHOOSE i \in 1..26 : CharAt(UpperCase, i) = c)
    ELSE c

RECURSIVE ToLowerCase(_)
ToLowerCase(str) ==
    IF str = "" THEN "" ELSE LowerChar(CharAt(str, 1)) \o ToLowerCase(SubSeq(str, 2, Len(str)))

RECURSIVE Dashed(_, _)
\* str.replace(/[^a-z0-9]+/g, "-"): inRun tells that the run before str got its dash
Dashed(str, inRun) ==
    IF str = "" THEN ""
    ELSE IF CharAt(str, 1) \in Lower \cup Digits
    THEN CharAt(str, 1) \o Dashed(SubSeq(str, 2, Len(str)), FALSE)
    ELSE (IF inRun THEN "" ELSE "-") \o Dashed(SubSeq(str, 2, Len(str)), TRUE)

\* str.replace(/^-+|-+$/g, "") for a string without two dashes in a row next to an end
Trimmed(str) ==
    LET a == IF Len(str) > 0 /\ CharAt(str, 1) = "-" THEN SubSeq(str, 2, Len(str)) ELSE str
    IN  IF Len(a) > 0 /\ CharAt(a, Len(a)) = "-" THEN SubSeq(a, 1, Len(a) - 1) ELSE a

\* slugify(str)
slugify(str) == Trimmed(Dashed(ToLowerCase(str), FALSE))

RECURSIVE Kept(_)
\* str.replace(/[^a-z0-9]+/g, "")
Kept(str) ==
    IF str = "" THEN ""
    ELSE (IF CharAt(str, 1) \in Lower \cup Digits THEN CharAt(str, 1) ELSE "")
         \o Kept(SubSeq(str, 2, Len(str)))

\* author.toLowerCase().replace(/[^a-z0-9]+/g, "") || "author"
AuthorSlug(author) ==
    IF Kept(ToLowerCase(author)) = "" THEN "author" ELSE Kept(ToLowerCase(author))

\* the values init gathers from a name, an author and the --out flag
Config(name, author, out) ==
    [name |-> name, author |-> author, slug |-> slugify(name),
     id |-> "com." \o AuthorSlug(author) \o "." \o slugify(name),
     outDir |-> IF Truthy(out) THEN ToStr(out) ELSE slugify(name),
     set |-> TRUE,
     description |-> "A Nexus plugin", port |-> 80, permissions |-> <<>>,
     includeMcp |-> TRUE, includeSettings |-> TRUE]

\* path.resolve(outDir), relative to the working directory: "." is the working directory
Dir(outDir) == IF outDir = "" THEN "." ELSE outDir

\* the keys of files, in order
ScaffoldFiles ==
    << "plugin.json", "Dockerfile", ".gitignore", "src/server.js", "src/public/index.html",
       ".github/workflows/docker.yml" >>

\* what mkdirSync(path.join(dir, "src", "public"), { recursive: true }) creates
SrcDirs(dir) == {dir, dir \o "/src", dir \o "/src/public"}

\* what mkdirSync(path.join(dir, ".github", "workflows"), { recursive: true }) creates
WorkflowDirs(dir) == {dir, dir \o "/.github", dir \o "/.github/workflows"}

\* path.join(dir, filePath)
FilePath(dir, k) == dir \o "/" \o ScaffoldFiles[k]

\* the longest name validate accepts
MaxNameLength == 100

InitNames   == {undefined, Bool(TRUE), Str("My Plugin"), Str("a"), Str("...")}
InitAuthors == {undefined, Bool(TRUE), Str("Me")}
InitOuts    == {undefined, Str("out")}

InitInit ==
    /\ command = "init"
    /\ ci \in BOOLEAN
    /\ args \in { [NoArgs EXCEPT !.name = n, !.author = a, !.out = o] :
                    n \in InitNames, a \in InitAuthors, o \in InitOuts }
    /\ disk \in { {"."} \cup d : d \in SUBSET {"my-plugin", "out"} }
    /\ before = disk
    /\ config = NoConfig
    /\ target = "dir"
    /\ file = "missing"
    /\ manifest = undefined
    /\ dockerfile = FALSE
    /\ jsonMode = FALSE
    /\ manifestPath = ""
    /\ pc = "i_start"
    /\ results = <<>>
    /\ errors = 0
    /\ warnings = 0
    /\ stdout = <<>>
    /\ stderr = <<>>
    /\ ret = "none"
    /\ exitCode = -1
    /\ prev = NoRun
    /\ cmds = <<>>
    /\ remote = {}
    /\ tmpFile = FALSE
    /\ isUpdate = FALSE
    /\ ghUser = ""
    /\ existing = NoExisting
    /\ meta = NoMeta
    /\ entry = NoEntry
    /\ unlinkFailed = FALSE

\* what no step of init changes
InitFrame == <<Cli, prev, PublishVars, ValidateVars, before>>

\* flag-driven mode: slugify(name) and author.toLowerCase() raise a TypeError for a
\* value that is no string
GatherFlags ==
    /\ pc = "i_start"
    /\ Truthy(args.name)
    /\ IF args.name.t # "string" \/ (Truthy(args.author) /\ args.author.t # "string")
       THEN pc' = "threw" /\ UNCHANGED config
       ELSE /\ config' = Config(args.name.s,
                                IF Truthy(args.author) THEN args.author.s ELSE "",
                                args.out)
            /\ pc' = "i_exists"
    /\ UNCHANGED <<InitFrame, disk, stdout, stderr, exitCode>>

\* no --name and not interactive: the error and the usage line, process.exit(1)
NameRequired ==
    /\ pc = "i_start"
    /\ ~ Truthy(args.name)
    /\ ci
    /\ stderr' = stderr \o << [kind |-> "error", error |-> "--name is required"],
                              [kind |-> "usage"] >>
    /\ exitCode' = 1
    /\ pc' = "exited"
    /\ UNCHANGED <<InitFrame, config, disk, stdout>>

\* interactive mode: the answers to the prompts; outDir = slug
GatherAnswers ==
    /\ pc = "i_start"
    /\ ~ Truthy(args.name)
    /\ ~ ci
    /\ \E name \in {"My Plugin", "Zed 2", "--"}, author \in {"", "Me"},
          permissions \in {<<>>, <<"system:info">>}, mcp \in BOOLEAN, settings \in BOOLEAN :
          /\ config' = [Config(name, author, undefined) EXCEPT
                           !.permissions = permissions,
                           !.includeMcp = mcp,
                           !.includeSettings = settings]
          /\ stdout' = stdout \o << [kind |-> "banner"],
                                    [kind |-> "id", id |-> config'.id] >>
    /\ pc' = "i_exists"
    /\ UNCHANGED <<InitFrame, disk, stderr, exitCode>>

\* the directory check without its process.exit(1)
CheckDir_NoExit ==
    /\ pc = "i_exists"
    /\ stderr' = IF Dir(config.outDir) \in disk
                 THEN Append(stderr, [kind |-> "error", error |-> "already exists"])
                 ELSE stderr
    /\ pc' = "i_mkdir"
    /\ UNCHANGED <<InitFrame, config, disk, stdout, exitCode>>

\* if (fs.existsSync(dir)) { console.error(...); process.exit(1) }
CheckDir ==
    /\ pc = "i_exists"
    /\ IF Dir(config.outDir) \in disk
       THEN /\ stderr' = Append(stderr, [kind |-> "error", error |-> "already exists"])
            /\ exitCode' = 1
            /\ pc' = "exited"
       ELSE pc' = "i_mkdir" /\ UNCHANGED <<stderr, exitCode>>
    /\ UNCHANGED <<InitFrame, config, disk, stdout>>

\* fs.mkdirSync(path.join(dir, "src", "public"), { recursive: true })
MakeSrcDirs ==
    /\ pc = "i_mkdir"
    /\ disk' = disk \cup SrcDirs(Dir(config.outDir))
    /\ pc' = "i_mkdir2"
    /\ UNCHANGED <<InitFrame, config, stdout, stderr, exitCode>>

\* fs.mkdirSync(path.join(dir, ".github", "workflows"), { recursive: true })
MakeWorkflowDirs ==
    /\ pc = "i_mkdir2"
    /\ disk' = disk \cup WorkflowDirs(Dir(config.outDir))
    /\ pc' = "i_write"
    /\ UNCHANGED <<InitFrame, config, stdout, stderr, exitCode>>

\* one turn of the loop over Object.entries(files): the first file not yet written
WriteFile ==
    /\ pc = "i_write"
    /\ LET dir == Dir(config.outDir)
           k   == CHOOSE i \in 1..Len(ScaffoldFiles) :
                     /\ FilePath(dir, i) \notin disk
                     /\ \A j \in 1..(i - 1) : FilePath(dir, j) \in disk
       IN  /\ disk' = disk \cup {FilePath(dir, k)}
           /\ pc' = IF k = Len(ScaffoldFiles) THEN "i_report" ELSE "i_write"
    /\ UNCHANGED <<InitFrame, config, stdout, stderr, exitCode>>

\* the record of what was created (when ci) or the list and the next steps; init returns
\* and the process ends
Report ==
    /\ pc = "i_report"
    /\ stdout' = Append(stdout, [kind |-> "created", json |-> ci, dir |-> config.outDir,
                                 id |-> config.id, files |-> ScaffoldFiles])
    /\ exitCode' = 0
    /\ pc' = "exited"
    /\ UNCHANGED <<InitFrame, config, disk, stderr>>

RECURSIVE GhName(_)
\* str.replace(/[^a-z0-9-]/g, "")
GhName(str) ==
    IF str = "" THEN ""
    ELSE (IF CharAt(str, 1) \in Lower \cup Digits \cup {"-"} THEN CharAt(str, 1) ELSE "")
         \o GhName(SubSeq(str, 2, Len(str)))

\* the manifest object pluginJson(config) builds, in the order of its keys
pluginJson(c) ==
    Obj(<< KV("id", Str(c.id)),
           KV("name", Str(c.name)),
           KV("version", Str("0.1.0")),
           KV("description", Str(c.description)),
           KV("author", Str(c.author)),
           KV("license", Str("MIT")),
           KV("homepage", Str("")),
           KV("image", Str("ghcr.io/" \o GhName(ToLowerCase(c.author)) \o "/nexus-plugin-"
                           \o c.slug \o ":0.1.0")),
           KV("ui", Obj(<<KV("port", Num(c.port)), KV("path", Str("/"))>>)),
           KV("permissions", Arr([i \in 1..Len(c.permissions) |-> Str(c.permissions[i])])),
           KV("health", Obj(<<KV("endpoint", Str("/health")), KV("interval_secs", Num(30))>>)),
           KV("env", Obj(<<>>)),
           KV("min_nexus_version", Str("0.3.0")) >>
        \o (IF c.includeMcp
            THEN << KV("mcp", Obj(<<KV("tools", Arr(<<
                      Obj(<< KV("name", Str("example_tool")),
                             KV("description", Str("An example tool for " \o c.name)),
                             KV("permissions", Arr(<<>>)),
                             KV("input_schema", Obj(<<KV("type", Str("object"))>>)) >>) >>))>>)) >>
            ELSE <<>>)
        \o << KV("settings",
                 IF c.includeSettings
                 THEN Arr(<< Obj(<< KV("key", Str("greeting")), KV("type", Str("string")),
                                    KV("label", Str("Greeting Text")),
                                    KV("default", Str("Hello from " \o c.name \o "!")) >>) >>)
                 ELSE Arr(<<>>)) >>)

NextInit ==
    \/ GatherFlags
    \/ NameRequired
    \/ GatherAnswers
    \/ CheckDir
    \/ MakeSrcDirs
    \/ MakeWorkflowDirs
    \/ WriteFile
    \/ Report
    \/ Fatal

SpecInit == InitInit /\ [][NextInit]_vars

\* nexus-plugin validate <dir> after init created dir: the manifest is what JSON.parse
\* gives for the text pluginJson wrote, and the Dockerfile is the scaffolded one
ValidateCreated ==
    /\ command = "init"
    /\ pc = "exited"
    /\ exitCode = 0
    /\ command' = "validate"
    /\ target' = "dir"
    /\ file' = IF FilePath(Dir(config.outDir), 1) \in disk THEN "json" ELSE "missing"
    /\ manifest' = pluginJson(config)
    /\ dockerfile' = (FilePath(Dir(config.outDir), 2) \in disk)
    /\ jsonMode' \in BOOLEAN
    /\ Restart
    /\ UNCHANGED <<ci, args, prev, PublishVars, InitVars>>

NextScaffold ==
    \/ NextInit
    \/ ValidateCreated
    \/ Resolve
    \/ CheckExists
    \/ ReadFile
    \/ ParseJson
    \/ CheckRequired
    \/ CheckLength
    \/ CheckBidi
    \/ CheckIcon
    \/ CheckDigest
    \/ CheckPermissions
    \/ CheckMcpTools
    \/ CheckExtensions
    \/ CheckSettings
    \/ CheckDockerfile
    \/ Output
    \/ Exit

SpecScaffold == InitInit /\ [][NextScaffold]_vars

-----------------------------------------------------------------------------
(* Properties                                                              *)

Levels(rs, level) == {i \in 1..Len(rs) : rs[i].level = level}

Returned == ret # "none"

Parsed == file = "json"

\* C1: whenever validate has returned (after a fatal load failure or after the
\* full rule pass, in JSON or in human mode), the returned boolean is true iff
\* errors = 0 iff results holds no fail entry; warn entries do not matter, and
\* in JSON mode the record's ok is the same boolean.
C1_SuccessIffNoErrors ==
    Returned =>
        /\ (ret = "true") <=> (errors = 0)
        /\ (errors = 0) <=> (Levels(results, "fail") = {})
        /\ errors = Cardinality(Levels(results, "fail"))
        /\ jsonMode => (stdout[1].ok <=> ret = "true")

\* a run that returned success although it holds a warn entry
C1_Witness == ret = "true" /\ Levels(results, "warn") # {} /\ Parsed

LoadMessages ==
    { Msg("plugin.json not found", <<>>),
      Msg("Cannot read plugin.json: ", <<"err.message">>),
      Msg("Invalid JSON: ", <<"err.message">> ) }

\* C2: when the manifest file is missing, unreadable or not valid JSON, no
\* rule check and no Dockerfile check is entered, and the run returns exactly
\* one entry, a fail (reading "plugin.json not found" when the file is
\* missing), with overall success false.
C2_LoadFailureStops ==
    ~ Parsed =>
        /\ pc \in {"start", "exists", "read", "parse", "output", "returned", "exited"}
        /\ Len(results) <= 1
        /\ pc \in {"output", "returned", "exited"} =>
              /\ Len(results) = 1
              /\ results[1].level = "fail"
              /\ results[1].msg \in LoadMessages
              /\ file = "missing" => results[1].msg = Msg("plugin.json not found", <<>>)
              /\ errors = 1
        /\ Returned => ret = "false"
        /\ pc = "exited" => Returned

\* a run over a file that is not valid JSON has returned
C2_Witness == file = "invalid" /\ Returned /\ Len(results) = 1

\* C3: validate never raises: no run over a file that parses as JSON ends in
\* a TypeError.
C3_NeverRaises == Parsed => pc # "threw"

DockerfileMessages ==
    { Msg("no Dockerfile found next to plugin.json", <<>>), Msg("Dockerfile found", <<>>) }

\* C4: every run that read and parsed the manifest evaluates all check groups
\* and so ends with the Dockerfile entry as its last entry.
C4_EndsWithDockerfile ==
    (Parsed /\ pc = "exited") =>
        /\ Len(results) > 0
        /\ results[Len(results)].msg \in DockerfileMessages

\* the positions of validate, in program order
Positions ==
    << "start", "exists", "read", "parse", "required", "length", "bidi", "icon", "digest",
       "permissions", "mcp", "extensions", "settings", "dockerfile", "output", "returned" >>

Index(p) == CHOOSE i \in 1..Len(Positions) : Positions[i] = p

\* the check group at position group has been completed (it did not raise)
After(group) ==
    \/ pc \in {Positions[i] : i \in 1..Len(Positions)} /\ Index(pc) > Index(group)
    \/ pc = "exited" /\ Returned

\* the entries of rs whose message template is in tpls, in order
Pick(rs, tpls) == SelectSeq(rs, LAMBDA e : e.msg.tpl \in tpls)

\* the number of indices i of seq with P(seq, i)
RECURSIVE Sum(_, _)
Sum(f, n) == IF n = 0 THEN 0 ELSE f[n] + Sum(f, n - 1)

McpTemplates ==
    { "MCP tool name invalid", "duplicate MCP tool name: ", "MCP tool must have a description",
      "MCP tool description exceeds 2000 characters",
      "MCP tool description contains bidi overrides",
      "MCP tool input_schema must have type object at root",
      "MCP tool has invalid permission: ", "MCP tools valid" }

TheTools == Prop(Prop(manifest, "mcp"), "tools").a

\* a permission entry the data model allows: one of the eight, or ext:-prefixed
PermissionAllowed(e) ==
    /\ e.t = "string"
    /\ \/ e.s \in {VALID_PERMISSIONS[i] : i \in 1..Len(VALID_PERMISSIONS)}
       \/ StartsWith(e.s, "ext:")

\* the number of sub-checks tool i of tools violates: name pattern, uniqueness among
\* earlier tools, description, input_schema, and each invalid permission
ToolViolations(tools, i) ==
    LET tool == tools[i]
        d    == Prop(tool, "description")
        sch  == Prop(tool, "input_schema")
        pm   == Prop(tool, "permissions")
    IN  (IF TOOL_NAME_RE(Prop(tool, "name")) THEN 0 ELSE 1)
      + (IF \E j \in 1..(i - 1) : Prop(tools[j], "name") = Prop(tool, "name") THEN 1 ELSE 0)
      + (IF d.t = "string" /\ Len(d.s) >= 1 /\ Len(d.s) <= 2000 /\ ~ BIDI_CHARS(d)
         THEN 0 ELSE 1)
      + (IF sch.t = "object" /\ Prop(sch, "type") = Str("object") THEN 0 ELSE 1)
      + (IF pm.t = "array"
         THEN Cardinality({k \in 1..Len(pm.a) : ~ PermissionAllowed(pm.a[k])}) ELSE 0)

ToolFailsDue(tools, i) ==
    LET tool == tools[i]
        d    == Prop(tool, "description")
        sch  == Prop(tool, "input_schema")
        pm   == Prop(tool, "permissions")
    IN  IF ~ TOOL_NAME_RE(Prop(tool, "name")) THEN 1
        ELSE IF \E j \in 1..(i - 1) : Prop(tools[j], "name") = Prop(tool, "name") THEN 1
        ELSE (IF ~ Truthy(d) \/ Length(d) = Num(0) \/ Gt(Length(d), 2000) \/ BIDI_CHARS(d)
              THEN 1 ELSE 0)
           + (IF sch.t = "object" /\ Prop(sch, "type") = Str("object") THEN 0 ELSE 1)
           + (IF pm.t = "array"
              THEN Cardinality({k \in 1..Len(pm.a) : ~ PermissionAllowed(pm.a[k])}) ELSE 0)

IconValid(v)   == v = undefined \/ (v.t = "string" /\ (StartsWith(v.s, "http://")
                                                       \/ StartsWith(v.s, "https://")))
DigestValid(v) == v = undefined \/ (v.t = "string" /\ DIGEST_RE(v))
PermsValid(v)  == v = undefined \/ (v.t = "array" /\ \A i \in 1..Len(v.a) : PermissionAllowed(v.a[i]))
ToolsValid(v)  ==
    \/ v = undefined
    \/ /\ v.t = "object"
       /\ Prop(v, "tools") = undefined
    \/ /\ v.t = "object"
       /\ Prop(v, "tools").t = "array"
       /\ \A i \in 1..Len(Prop(v, "tools").a) :
             /\ Prop(v, "tools").a[i].t = "object"
             /\ Prop(Prop(v, "tools").a[i], "name").t = "string"
             /\ ToolViolations(Prop(v, "tools").a, i) = 0
ExtensionsValid(v) ==
    \/ v = undefined
    \/ /\ v.t = "object"
       /\ \A i \in 1..Len(v.o) :
             /\ EXT_ID_RE(Str(v.o[i].k))
             /\ v.o[i].v.t = "array"
             /\ Len(v.o[i].v.a) > 0
             /\ \A j \in 1..Len(v.o[i].v.a) :
                   v.o[i].v.a[j].t = "string" /\ EXT_ID_RE(v.o[i].v.a[j])
SettingsValid(v) ==
    \/ v = undefined
    \/ /\ v.t = "array"
       /\ \A i \in 1..Len(v.a) :
             LET e == v.a[i] IN
             /\ e.t = "object"
             /\ Prop(e, "key").t = "string"
             /\ Len(Prop(e, "key").s) > 0
             /\ Prop(e, "type") \in {Str("string"), Str("number"), Str("boolean"), Str("select")}
             /\ Prop(e, "type") = Str("select") =>
                   (Prop(e, "options").t = "array" /\ Len(Prop(e, "options").a) > 0)

OptionalSectionsValid(m) ==
    /\ IconValid(Prop(m, "icon"))
    /\ DigestValid(Prop(m, "image_digest"))
    /\ PermsValid(Prop(m, "permissions"))
    /\ ToolsValid(Prop(m, "mcp"))
    /\ ExtensionsValid(Prop(m, "extensions"))
    /\ SettingsValid(Prop(m, "settings"))

\* a string field whose value is a string of 1..limit characters free of bidi overrides
StringFieldValid(m, f) ==
    LET v == Prop(m, f) IN
    v.t = "string" /\ Len(v.s) >= 1 /\ Len(v.s) <= Limit(f) /\ ~ BIDI_CHARS(v)

UiPortValid(m) ==
    /\ Prop(m, "ui").t = "object"
    /\ Prop(Prop(m, "ui"), "port").t = "number"
    /\ Prop(Prop(m, "ui"), "port").n > 0

\* required field f ("ui.port" for the port) is missing from m
Missing(m, f) ==
    IF f = "ui.port"
    THEN Prop(m, "ui") = undefined
         \/ (Prop(m, "ui").t = "object" /\ Prop(Prop(m, "ui"), "port") = undefined)
    ELSE Prop(m, f) = undefined

RequiredNames == StringFields \cup {"ui.port"}

\* m is valid but for required field f, which is missing
ValidButMissing(m, f) ==
    /\ m.t = "object"
    /\ Missing(m, f)
    /\ \A g \in StringFields \ {f} : StringFieldValid(m, g)
    /\ f # "ui.port" => UiPortValid(m)
    /\ OptionalSectionsValid(m)

\* the message of the required-field fail for f
RequiredMessage(f) ==
    IF f = "ui.port" THEN Msg("ui.port must be a non-zero number", <<>>)
    ELSE Msg(f \o " is required", <<>>)

LengthTemplates(f) == {f \o " length ok", f \o " too long"}

\* C6: for a manifest that is valid except that exactly one of id, name,
\* version, description, author, image, ui.port is missing, the returned result
\* holds exactly one fail entry, it names the missing field, overall success is
\* false, and no length-limit entry exists for the missing field.
C6_OneMissingOneFail ==
    \A f \in RequiredNames :
        (Parsed /\ Returned /\ ValidButMissing(manifest, f)) =>
            /\ Cardinality(Levels(results, "fail")) = 1
            /\ \E i \in Levels(results, "fail") : results[i].msg = RequiredMessage(f)
            /\ ret = "false"
            /\ Pick(results, LengthTemplates(f)) = <<>>

\* a returned run over a manifest with tools that lacks only image
C6_Witness ==
    /\ Parsed /\ Returned
    /\ ValidButMissing(manifest, "image")
    /\ HasTools(manifest) /\ Len(TheTools) > 0
    /\ errors = 1

\* the least length the data-model table gives each string field
MinLength(f) == IF f \in {"author", "image"} THEN 0 ELSE 1

\* the required-field or length-limit check produced a fail entry for field f
FailFor(f) ==
    \E i \in Levels(results, "fail") :
        results[i].msg.tpl \in {f \o " is required", f \o " too long"}

UiPortAccepted ==
    \A i \in Levels(results, "fail") : results[i].msg # RequiredMessage("ui.port")

UiPortPositive ==
    /\ ~ Throws(Prop(manifest, "ui"))
    /\ Prop(Prop(manifest, "ui"), "port").t = "number"
    /\ Prop(Prop(manifest, "ui"), "port").n > 0

\* C7 as claimed: a required string field gets no fail entry exactly when its
\* value is a string whose length is in the table's range (id, name 1..100,
\* version 1..50, description 1..2000, author 0..100, image 0..200); ui.port
\* is accepted exactly when it is a number greater than 0.
C7_FieldRanges ==
    (Parsed /\ After("length")) =>
        /\ \A f \in StringFields :
              LET v == Prop(manifest, f) IN
              (~ FailFor(f)) <=>
                  (v.t = "string" /\ Len(v.s) >= MinLength(f) /\ Len(v.s) <= Limit(f))
        /\ UiPortAccepted <=> UiPortPositive

\* C7 as amended: the same with author 1..100 and image 1..200: every required
\* string field must be a string of at least one character.
C7_FieldRangesNonEmpty ==
    (Parsed /\ After("length")) =>
        /\ \A f \in StringFields :
              LET v == Prop(manifest, f) IN
              (~ FailFor(f)) <=> (v.t = "string" /\ Len(v.s) >= 1 /\ Len(v.s) <= Limit(f))
        /\ UiPortAccepted <=> UiPortPositive

\* a returned run over a manifest whose author is the empty string, which failed
C7_Witness ==
    /\ Parsed /\ Returned
    /\ Prop(manifest, "author") = Str("")
    /\ FailFor("author")
    /\ ~ FailFor("image")

PermissionTemplates == {"invalid permission: ", "permissions valid"}

\* the permission entries due for perms: a fail naming each entry that is not allowed, in
\* order, or else the aggregated pass
RECURSIVE PermissionFailsDue(_, _)
PermissionFailsDue(perms, i) ==
    IF i > Len(perms) THEN <<>>
    ELSE (IF PermissionAllowed(perms[i]) THEN <<>>
          ELSE << [level |-> "fail",
                   msg |-> Msg("invalid permission: ", <<ToStr(perms[i])>>)] >>)
         \o PermissionFailsDue(perms, i + 1)

PermissionEntriesDue(perms) ==
    IF PermissionFailsDue(perms, 1) = <<>>
    THEN << [level |-> "pass", msg |-> Msg("permissions valid", <<Decimal(Len(perms))>>)] >>
    ELSE PermissionFailsDue(perms, 1)

SameNamePairs(tools) ==
    { p \in (1..Len(tools)) \X (1..Len(tools)) :
        /\ p[1] < p[2]
        /\ Prop(tools[p[1]], "name") = Prop(tools[p[2]], "name")
        /\ TOOL_NAME_RE(Prop(tools[p[1]], "name")) }

DuplicateEntries == Pick(results, {"duplicate MCP tool name: "})

\* C9: for a tool list in which exactly one pair of tools shares a
\* (pattern-valid) name, exactly one duplicate-name fail entry is produced,
\* naming that name.
C9_OneDuplicateEntry ==
    (Parsed /\ After("mcp") /\ HasTools(manifest)
       /\ Cardinality(SameNamePairs(TheTools)) = 1) =>
        /\ Len(DuplicateEntries) = 1
        /\ DuplicateEntries[1].level = "fail"
        /\ \A p \in SameNamePairs(TheTools) :
              DuplicateEntries[1].msg.args = <<ToStr(Prop(TheTools[p[2]], "name"))>>

\* a returned run over three tools, the first and the last of which share a name
C9_Witness ==
    /\ Parsed /\ Returned /\ HasTools(manifest)
    /\ Len(TheTools) = 3
    /\ SameNamePairs(TheTools) = {<<1, 3>>}
    /\ Len(DuplicateEntries) = 1

ExtensionTemplates ==
    { "extension ID must match", "extension must declare at least one operation",
      "extension operation must match", "extensions valid" }

SettingTemplates ==
    { "setting missing key", "setting has invalid type",
      "setting type select requires a non-empty options array", "settings valid" }

EmptyTools      == HasTools(manifest) /\ TheTools = <<>>
EmptyExtensions == Prop(manifest, "extensions") = Obj(<<>>)
EmptySettings   == Prop(manifest, "settings") = Arr(<<>>)

\* C10 as claimed: an empty extensions mapping, an empty settings array and an
\* empty mcp.tools array each add no entry at all.
C10_EmptySectionsSilent ==
    (Parsed /\ ~ Throws(manifest)) =>
        /\ EmptyExtensions => Pick(results, ExtensionTemplates) = <<>>
        /\ EmptySettings => Pick(results, SettingTemplates) = <<>>
        /\ EmptyTools => Pick(results, McpTemplates) = <<>>

\* C10 as amended: an absent section adds no entry; an empty extensions
\* mapping and an empty settings array add no entry; an empty mcp.tools array
\* adds exactly one entry, the aggregated pass "MCP tools valid (0)".
C10_EmptySections ==
    (Parsed /\ ~ Throws(manifest)) =>
        /\ (EmptyExtensions \/ Prop(manifest, "extensions") = undefined) =>
              Pick(results, ExtensionTemplates) = <<>>
        /\ (EmptySettings \/ Prop(manifest, "settings") = undefined) =>
              Pick(results, SettingTemplates) = <<>>
        /\ Prop(manifest, "mcp") = undefined => Pick(results, McpTemplates) = <<>>
        /\ (EmptyTools /\ After("mcp")) =>
              Pick(results, McpTemplates)
                  = << [level |-> "pass", msg |-> Msg("MCP tools valid", <<"0">>)] >>

\* a returned run whose extensions, settings and mcp.tools are all empty
C10_Witness ==
    /\ Parsed /\ Returned
    /\ ~ Throws(manifest)
    /\ EmptyExtensions /\ EmptySettings /\ EmptyTools

-----------------------------------------------------------------------------
(* Settings entries                                                        *)

TheSettings == Prop(manifest, "settings").a

SelectFault(e) ==
    /\ Prop(e, "type") = Str("select")
    /\ (Prop(e, "options").t # "array" \/ Prop(e, "options").a = <<>>)

TypeFault(e) ==
    Prop(e, "type") \notin {Str("string"), Str("number"), Str("boolean"), Str("select")}

\* the fail entries setting e is due when KeyOk tells whether its key is accepted: the
\* missing-key fail, or else the invalid-type fail and the select fail, each naming the key
SettingFails(e, keyOk) ==
    IF ~ keyOk THEN << [level |-> "fail", msg |-> Msg("setting missing key", <<>>)] >>
    ELSE (IF TypeFault(e)
          THEN << [level |-> "fail",
                   msg |-> Msg("setting has invalid type",
                               <<Prop(e, "key").s, ToStr(Prop(e, "type")),
                                 "string/number/boolean/select">>)] >>
          ELSE <<>>)
      \o (IF SelectFault(e)
          THEN << [level |-> "fail",
                   msg |-> Msg("setting type select requires a non-empty options array",
                               <<Prop(e, "key").s>>)] >>
          ELSE <<>>)

StringKey(e)         == Prop(e, "key").t = "string"
NonEmptyStringKey(e) == Prop(e, "key").t = "string" /\ Prop(e, "key").s # ""

RECURSIVE SettingFailsClaimed(_, _)
SettingFailsClaimed(settings, i) ==
    IF i > Len(settings) THEN <<>>
    ELSE SettingFails(settings[i], StringKey(settings[i]))
         \o SettingFailsClaimed(settings, i + 1)

RECURSIVE SettingFailsDue(_, _)
SettingFailsDue(settings, i) ==
    IF i > Len(settings) THEN <<>>
    ELSE SettingFails(settings[i], NonEmptyStringKey(settings[i]))
         \o SettingFailsDue(settings, i + 1)

SettingsPass(settings) ==
    << [level |-> "pass", msg |-> Msg("settings valid", <<Decimal(Len(settings))>>)] >>

-----------------------------------------------------------------------------
(* Extension entries                                                       *)

TheExtensions == Prop(manifest, "extensions")

\* a mapping: a JSON object, not an array, a string, a number or null
IsMapping(v) == v.t = "object"

RECURSIVE OperationFailsDue(_, _, _)
OperationFailsDue(extId, ops, i) ==
    IF i > Len(ops) THEN <<>>
    ELSE (IF EXT_ID_RE(ops[i]) THEN <<>>
          ELSE << [level |-> "fail",
                   msg |-> Msg("extension operation must match", <<extId, ToStr(ops[i])>>)] >>)
         \o OperationFailsDue(extId, ops, i + 1)

\* the fail entries the mapping entry extId -> operations is due: one for an ID failing
\* the pattern, or else one for a value that is no non-empty array, or else one per
\* operation name failing the pattern
ExtensionFailsDue(extId, operations) ==
    IF ~ EXT_ID_RE(Str(extId))
    THEN << [level |-> "fail", msg |-> Msg("extension ID must match", <<extId>>)] >>
    ELSE IF operations.t # "array" \/ operations.a = <<>>
    THEN << [level |-> "fail",
             msg |-> Msg("extension must declare at least one operation", <<extId>>)] >>
    ELSE OperationFailsDue(extId, operations.a, 1)

RECURSIVE MappingFailsDue(_, _)
MappingFailsDue(o, i) ==
    IF i > Len(o) THEN <<>>
    ELSE ExtensionFailsDue(o[i].k, o[i].v) \o MappingFailsDue(o, i + 1)

\* the entries due for a mapping: the fails of its entries, or else the aggregated pass
\* when it is non-empty
MappingEntriesDue(o) ==
    IF MappingFailsDue(o, 1) # <<>> THEN MappingFailsDue(o, 1)
    ELSE IF o = <<>> THEN <<>>
    ELSE << [level |-> "pass", msg |-> Msg("extensions valid", <<Decimal(Len(o))>>)] >>

\* C12: extension entries exist only if extensions is a mapping (a JSON
\* object, not an array, string, number or null); for a mapping they are one
\* fail per key failing the pattern, per value that is no non-empty array and
\* per operation name failing the pattern, and the aggregated "extensions
\* valid" pass iff the mapping is non-empty and no entry failed.
C12_ExtensionEntries ==
    (Parsed /\ ~ Throws(manifest)) =>
        /\ ~ IsMapping(TheExtensions) => Pick(results, ExtensionTemplates) = <<>>
        /\ (IsMapping(TheExtensions) /\ After("extensions")) =>
              Pick(results, ExtensionTemplates) = MappingEntriesDue(TheExtensions.o)

-----------------------------------------------------------------------------
(* Bidirectional-override characters                                       *)

BidiFields == {"name", "description", "author"}

\* v is a string that holds a bidirectional-override character
HoldsBidi(v) == v.t = "string" /\ \E i \in 1..Len(v.s) : CharAt(v.s, i) \in BidiSet

\* some tool of mcp.tools has a description holding a bidirectional-override character
ToolDescriptionHoldsBidi ==
    /\ HasTools(manifest)
    /\ \E i \in 1..Len(TheTools) :
          TheTools[i].t = "object" /\ HoldsBidi(Prop(TheTools[i], "description"))

BidiFail(f) ==
    [level |-> "fail", msg |-> Msg("contains bidirectional override characters", <<f>>)]

BidiPass == [level |-> "pass", msg |-> Msg("no bidi override characters", <<>>)]

Count(rs, e) == Cardinality({i \in 1..Len(rs) : rs[i] = e})

\* C13: a manifest holding a bidirectional-override character in name,
\* description, author or the description of a tool of mcp.tools never obtains
\* success; once the bidi scan is done each offending top-level field has its
\* own fail entry, and the aggregated "no bidi override characters" pass is
\* present only if name, description and author are all clean.
C13_BidiNeverSucceeds ==
    (Parsed /\ ~ Throws(manifest)) =>
        /\ ((\E f \in BidiFields : HoldsBidi(Prop(manifest, f))) \/ ToolDescriptionHoldsBidi)
              => /\ ret # "true"
                 /\ exitCode # 0
        /\ After("bidi") =>
              /\ \A f \in BidiFields :
                    HoldsBidi(Prop(manifest, f)) => Count(results, BidiFail(f)) = 1
              /\ Count(results, BidiPass) > 0 =>
                    \A f \in BidiFields : ~ HoldsBidi(Prop(manifest, f))

\* a run that returned failure with one fail entry, the one for the description of a tool
\* that holds a bidirectional-override character
C13_Witness ==
    /\ Parsed /\ Returned
    /\ ToolDescriptionHoldsBidi
    /\ errors = 1
    /\ \E i \in Levels(results, "fail") :
          results[i].msg.tpl = "MCP tool description contains bidi overrides"
    /\ Count(results, BidiPass) = 1

-----------------------------------------------------------------------------
(* Dockerfile warning                                                      *)

NoDockerfile == Msg("no Dockerfile found next to plugin.json", <<>>)

\* m violates no rule of the data model
ManifestValid(m) ==
    /\ m.t = "object"
    /\ \A f \in StringFields : StringFieldValid(m, f)
    /\ UiPortValid(m)
    /\ OptionalSectionsValid(m)

-----------------------------------------------------------------------------
(* Icon URL                                                                *)

IconPass == [level |-> "pass", msg |-> Msg("icon URL valid", <<>>)]
IconFail == [level |-> "fail", msg |-> Msg("icon must be an http or https URL", <<>>)]

IconEntries == SelectSeq(results, LAMBDA e : e \in {IconPass, IconFail})

\* icon is present (neither absent nor null)
IconPresent(m) == Prop(m, "icon") \notin {undefined, null}

\* icon starts with "http://" or "https://"
IconHttp(m) ==
    /\ Prop(m, "icon").t = "string"
    /\ \/ StartsWith(Prop(m, "icon").s, "http://")
       \/ StartsWith(Prop(m, "icon").s, "https://")

\* rs with its one IconFail entry turned into IconPass
IconFailPassed(rs) == [i \in 1..Len(rs) |-> IF rs[i] = IconFail THEN IconPass ELSE rs[i]]

\* C15: the icon check produces an entry only if icon is present, exactly
\* one, which is a fail exactly when icon does not start with "http://" or
\* "https://"; and the run after an edit that changes only icon from "ftp://x"
\* to "https://x" ends with the entries of the run before it, but for that one
\* entry, a fail before and a pass after.
C15_IconEntry ==
    /\ (Parsed /\ ~ Throws(manifest) /\ After("icon")) =>
          /\ IconEntries # <<>> => IconPresent(manifest)
          /\ IconPresent(manifest) =>
                IconEntries = (IF IconHttp(manifest) THEN <<IconPass>> ELSE <<IconFail>>)
    /\ (prev.ran /\ prev.edit = "icon" /\ pc = "exited") =>
          /\ Count(prev.results, IconFail) = 1
          /\ Count(prev.results, IconPass) = 0
          /\ results = IconFailPassed(prev.results)
          /\ errors = prev.errors - 1
          /\ warnings = prev.warnings
          /\ (ret = "none") <=> (prev.ret = "none")

\* the run after the edit has returned success where the run before it had failed on the
\* icon alone
C15_Witness ==
    /\ prev.ran /\ prev.edit = "icon"
    /\ prev.ret = "false" /\ prev.errors = 1
    /\ ret = "true"
    /\ Len(results) > 8

-----------------------------------------------------------------------------
(* Determinism                                                             *)

\* this run and the run before it were over files with the same content, which could
\* be read, and this run has ended
SameContentRunsEnded ==
    /\ prev.ran /\ prev.edit = "same"
    /\ file \in {"invalid", "json"}
    /\ pc = "exited"

\* this run left what the run before it left
SameOutcome ==
    /\ results = prev.results
    /\ errors = prev.errors
    /\ warnings = prev.warnings
    /\ ret = prev.ret

\* a step of a run leaves the file system as it is
FilesUntouched ==
    pc # "exited" => UNCHANGED <<target, file, manifest, dockerfile>>

\* C16 as claimed: any two runs over manifest files with identical content
\* end with the same ordered entries, the same error and warning counts and
\* the same success boolean.
C16_SameContentSameResult == SameContentRunsEnded => SameOutcome

\* C16 as amended: any two runs over readable manifest files with identical
\* content that both have, or both lack, a Dockerfile next to them end with the
\* same ordered entries, counts and success boolean, whatever the output mode
\* and whether the file or its directory is given; and no step of a run
\* changes the file system.
C16_SameContentAndDockerfile ==
    /\ [](SameContentRunsEnded /\ dockerfile = prev.dockerfile => SameOutcome)
    /\ [][FilesUntouched]_vars

\* a second run, given the file where the first was given its directory and writing in
\* the other output mode, has returned what the first returned
C16_Witness ==
    /\ SameContentRunsEnded
    /\ dockerfile /\ prev.dockerfile
    /\ target = "file" /\ jsonMode
    /\ file = "json" /\ ~ Throws(manifest)
    /\ ret = "false" /\ prev.ret = "false"
    /\ Len(stdout) = 1 /\ Len(results) > 8

-----------------------------------------------------------------------------
(* Exit status                                                             *)

\* this run was given the target of the run before it, nothing on disk has changed, and
\* the output mode is the other one
SameTargetOtherMode ==
    /\ prev.ran /\ prev.edit = "same"
    /\ target = prev.target
    /\ dockerfile = prev.dockerfile
    /\ jsonMode # prev.jsonMode

\* C17: the validate command exits with status 0 if validate returned true
\* and with status 1 otherwise, and for the same target the run in structured
\* mode and the run in human mode return the same boolean and exit with the
\* same status.
C17_ExitStatus ==
    pc = "exited" =>
        /\ exitCode = (IF ret = "true" THEN 0 ELSE 1)
        /\ ret = "true" <=> (Returned /\ errors = 0)
        /\ SameTargetOtherMode => (ret = prev.ret /\ exitCode = prev.exitCode)

\* a run in human mode and then a run in structured mode over the same valid manifest
\* have both exited with status 0
C17_Witness ==
    /\ pc = "exited"
    /\ SameTargetOtherMode
    /\ jsonMode
    /\ exitCode = 0 /\ prev.exitCode = 0

-----------------------------------------------------------------------------
(* Structured output                                                       *)

\* the record of the run: the resolved path, ok, the counts and the entries in order
TheRecord ==
    [kind |-> "json", file |-> manifestPath, ok |-> (errors = 0), errors |-> errors,
     warnings |-> warnings,
     results |-> [i \in 1..Len(results) |->
                     [level |-> results[i].level, message |-> results[i].msg]]]

\* C18: in structured mode every run of validate that has ended, a fatal load
\* failure included, has written exactly one record to standard output and
\* nothing else: the record with the resolved file path, ok = (errors = 0),
\* the error count, the warning count and all entries in order.
C18_OneRecord ==
    (jsonMode /\ pc = "exited") =>
        /\ stdout = <<TheRecord>>
        /\ stderr = <<>>
        /\ manifestPath # ""

-----------------------------------------------------------------------------
(* publish: the validation gate                                            *)

\* C19: publish never proceeds past a validation failure: an external command
\* (gh, curl, docker) has been invoked, a remote change made or the body file
\* written only if validate of ./plugin.json had returned true; when validate
\* returned false the next step exits with status 1, and a run in which it
\* did not return true ends with status 1.
C19_ValidationGates ==
    command = "publish" =>
        /\ (cmds # <<>> \/ remote # {} \/ tmpFile) => ret = "true"
        /\ manifestPath \in {"", "/cwd/target/plugin.json"}
        /\ ret = "false" => pc \in {"returned", "exited"}
        /\ (pc = "exited" /\ ret # "true") => exitCode = 1

\* publish has exited with status 1 on a manifest that failed validation, having invoked
\* no command
C19_Witness ==
    /\ command = "publish"
    /\ pc = "exited" /\ exitCode = 1
    /\ Parsed /\ ret = "false"
    /\ cmds = <<>> /\ remote = {}
    /\ stderr = <<Err("validation_failed")>>

\* publish has opened the pull request after validate returned true
C19_WitnessPublished ==
    /\ command = "publish"
    /\ pc = "exited" /\ exitCode = 0
    /\ ret = "true"
    /\ {"branch", "commit", "pr"} \subseteq remote

-----------------------------------------------------------------------------
(* init: the output directory                                              *)

TheDir == Dir(config.outDir)

\* the directories and the six files init creates under dir
Scaffold(dir) ==
    SrcDirs(dir) \cup WorkflowDirs(dir)
    \cup {dir \o "/" \o f : f \in { "plugin.json", "Dockerfile", ".gitignore", "src/server.js",
                                   "src/public/index.html", ".github/workflows/docker.yml" }}

\* C20: init never writes into a pre-existing path: if the resolved output
\* directory existed when init started, init exits with status 1 having
\* created no directory and written no file; otherwise it creates the
\* directory and writes exactly the six scaffold files, and exits with 0.
C20_InitNeverOverwrites ==
    command = "init" =>
        /\ before \subseteq disk
        /\ ~ config.set => disk = before
        /\ (config.set /\ TheDir \in before) =>
              /\ disk = before
              /\ pc \in {"i_exists", "exited"}
              /\ pc = "exited" => exitCode = 1
        /\ (config.set /\ TheDir \notin before) =>
              /\ disk \ before \subseteq Scaffold(TheDir)
              /\ pc = "exited" => (exitCode = 0 /\ disk \ before = Scaffold(TheDir))

\* init has exited with status 1 because the directory given with --out existed
C20_Witness ==
    /\ command = "init"
    /\ pc = "exited" /\ exitCode = 1
    /\ config.set /\ config.outDir = "out"
    /\ "out" \in before
    /\ disk = before

\* init has exited with status 0 having created my-plugin and the six files
C20_WitnessCreated ==
    /\ command = "init"
    /\ pc = "exited" /\ exitCode = 0
    /\ config.outDir = "my-plugin"
    /\ "my-plugin/.github/workflows/docker.yml" \in disk
    /\ Cardinality(disk \ before) = 11

-----------------------------------------------------------------------------
(* publish: what comes before the branch, the commit and the pull request  *)

\* the branch, the commit and the pull request publish has made
RegistryWrites == remote \cap {"branch", "commit", "pr"}

\* the position of the first command c in cmds, 0 when it was never invoked
FirstCmd(c) ==
    IF \E i \in 1..Len(cmds) : cmds[i] = c
    THEN CHOOSE i \in 1..Len(cmds) : cmds[i] = c /\ \A j \in 1..(i - 1) : cmds[j] # c
    ELSE 0

\* the errors of the four required steps
RequiredStepErrors ==
    {"gh_auth_failed", "missing_flags", "manifest_fetch_failed", "image_digest_unavailable"}

HasManifestUrl == Truthy(meta.manifestUrl)
HasManifestSha == meta.manifestSha256.t = "string" /\ AllIn(meta.manifestSha256.s, Hex, 64, 64)
HasImageDigest == meta.imageDigest.t = "string" /\ DIGEST_RE(meta.imageDigest)

\* C21: publish creates the branch, commits the entry or opens the pull
\* request only after, in this order, gh auth status succeeded, a manifest
\* URL was obtained (from --manifest-url when not interactive), the SHA-256
\* of the fetched manifest was computed and a sha256 image digest was
\* resolved; a failure of any of the four exits with status 1 with no
\* branch, commit or pull request made.
C21_RequiredStepsFirst ==
    command = "publish" =>
        /\ HasImageDigest => HasManifestSha
        /\ HasManifestSha => (HasManifestUrl /\ FirstCmd("curl") > 0)
        /\ HasManifestUrl =>
              /\ FirstCmd("gh auth status") > 0
              /\ ci => (Truthy(args.manifestUrl) /\ meta.manifestUrl = args.manifestUrl)
        /\ RegistryWrites # {} =>
              /\ HasImageDigest
              /\ FirstCmd("gh auth status") < FirstCmd("curl")
              /\ FirstCmd("curl") < FirstCmd("docker inspect")
              /\ FirstCmd("docker inspect") < FirstCmd("gh api create ref")
              /\ \A i \in 1..Len(stderr) : stderr[i].kind # "error"
        /\ (\E i \in 1..Len(stderr) :
               stderr[i].kind = "error" /\ stderr[i].error \in RequiredStepErrors) =>
              /\ pc = "exited"
              /\ exitCode = 1
              /\ RegistryWrites = {}

\* a non-interactive run has made the branch, the commit and the pull request
C21_Witness ==
    /\ command = "publish" /\ ci
    /\ RegistryWrites = {"branch", "commit", "pr"}
    /\ HasImageDigest
    /\ pc = "exited" /\ exitCode = 0

\* the image digest could not be resolved: exit 1 after curl, nothing made
C21_WitnessNoDigest ==
    /\ command = "publish"
    /\ pc = "exited" /\ exitCode = 1
    /\ stderr = <<Err("image_digest_unavailable")>>
    /\ HasManifestSha
    /\ RegistryWrites = {}

-----------------------------------------------------------------------------
(* publish: created_at and categories of the entry                         *)

\* categories were given with --categories
CategoriesGiven == Truthy(args.categories)

\* the categories chosen at the prompt, <<>> when the prompt was not shown
Chosen ==
    IF \E i \in 1..Len(stdout) : stdout[i].kind = "select"
    THEN stdout[CHOOSE i \in 1..Len(stdout) : stdout[i].kind = "select"].answer
    ELSE <<>>

\* C23: for an update the entry keeps the existing created_at whenever the
\* existing entry has one, and keeps the existing non-empty categories
\* unless categories were given with --categories; for a new plugin
\* created_at is the current time and the categories are ["utilities"]
\* when none were given or chosen.
C23_EntryKeepsExisting ==
    (command = "publish" /\ entry.built) =>
        /\ isUpdate = existing.exists
        /\ (isUpdate /\ Truthy(existing.created_at)) =>
              entry.created_at = existing.created_at.s
        /\ (isUpdate /\ Len(existing.categories) > 0 /\ ~ CategoriesGiven) =>
              entry.categories = existing.categories
        /\ ~ isUpdate =>
              /\ entry.created_at = Now
              /\ (~ CategoriesGiven /\ Chosen = <<>>) => entry.categories = <<"utilities">>

\* an update built from --manifest-url alone keeps the date and the two categories
C23_Witness ==
    /\ command = "publish"
    /\ entry.built /\ isUpdate
    /\ Truthy(args.manifestUrl) /\ ~ CategoriesGiven
    /\ existing.created_at = Str(OldCreatedAt)
    /\ existing.categories = <<"ai", "fun">>
    /\ entry.created_at = OldCreatedAt
    /\ entry.categories = <<"ai", "fun">>

\* a new plugin with nothing given or chosen
C23_WitnessNew ==
    /\ command = "publish"
    /\ entry.built /\ ~ isUpdate /\ ~ ci
    /\ entry.created_at = Now
    /\ entry.categories = <<"utilities">>

-----------------------------------------------------------------------------
(* publish: the pull-request body file                                     *)

\* gh pr create was invoked and made no pull request
PrCreateFailed == FirstCmd("gh pr create") > 0 /\ "pr" \notin remote

\* C24 (as stated): the body file is removed in every run that reached its
\* creation, whether gh pr create succeeds or fails: no publish run ends
\* with the file still present, and a failure of gh pr create ends the
\* command with status 1.
C24_BodyFileRemoved ==
    command = "publish" =>
        /\ pc = "exited" => ~ tmpFile
        /\ (PrCreateFailed /\ pc = "exited") => exitCode = 1

\* C24 (amended): once gh pr create has returned or failed the body file
\* has been unlinked, and it is present afterwards only when that unlink
\* itself raised, an error publish swallows; a failure of gh pr create ends
\* the command with status 1.
C24_BodyFileUnlinked ==
    command = "publish" =>
        /\ tmpFile => (pc = "p_pr" \/ unlinkFailed)
        /\ unlinkFailed => FirstCmd("gh pr create") > 0
        /\ PrCreateFailed => pc \in {"threw", "exited"}
        /\ (PrCreateFailed /\ pc = "exited") => exitCode = 1

\* gh pr create failed after the commit: exit 1 and the file is gone
C24_Witness ==
    /\ command = "publish"
    /\ pc = "exited" /\ exitCode = 1
    /\ "commit" \in remote
    /\ PrCreateFailed
    /\ ~ tmpFile /\ ~ unlinkFailed

-----------------------------------------------------------------------------
(* init, then validate on the created directory                            *)

\* init was given --name and nothing else
OnlyName ==
    /\ Truthy(args.name)
    /\ args.author = undefined
    /\ args.out = undefined

\* validate has run over the directory init created from --name alone
ScaffoldValidated ==
    /\ command = "validate"
    /\ config.set
    /\ OnlyName
    /\ Len(config.name) >= 1 /\ Len(config.name) <= MaxNameLength
    /\ Returned

\* C22: the manifest init scaffolds from --name alone (1 to 100
\* characters, no bidi characters) is accepted by validate: error count 0
\* and, the Dockerfile being scaffolded, warning count 0.
C22_ScaffoldAccepted ==
    ScaffoldValidated => (errors = 0 /\ warnings = 0)

====
